---- MODULE Spec2Model ----
(***************************************************************************)
(* A model of the health pipeline of tools/monitoring/aria-health-         *)
(* dashboard.py: the SQLite metric store (DatabaseManager), the polling    *)
(* collector (AriaHealthCollector) and the rule engine (AlertManager),     *)
(* and of the client of scripts/python/aria_operations_api.py              *)
(* (AriaOperationsAPI).                                                    *)
(*                                                                         *)
(* Conventions.  Floats are integers in thousandths (65.5 is 65500).       *)
(* Metric names and patterns are sequences of tokens, so that the Python   *)
(* test  pattern in name  is substring containment of sequences.  Naive    *)
(* datetimes are instants n: the hour  EpochHour + n \div 2  and a         *)
(* sub-second part that is zero (n even) or not (n odd).  The sqlite3      *)
(* adapter turns them into text and SQLite compares that text.             *)
(***************************************************************************)
EXTENDS Integers, Sequences, FiniteSets, TLC

\* ------------------------------------------------------------- bounds
MaxClock == 3
MaxLoops == 2
MaxTicks == 2
MaxResources == 1
MaxRows == 3
NumClients == 2
MaxCycles == 2
MaxStored == 2
EpochHour == 9
MaxTokens == 2
MaxCalls == 3
PageSize == 2
MaxPages == 2
MaxEdits == 1
MaxIds == 3
MaxWorkers == 2

VARIABLES
    now,        \* the wall clock, an instant
    metrics,    \* table metrics: the committed rows, in rowid order
    origin,     \* ghost, parallel to metrics: <<loop, tick, endpoint>> of the call that stored the row
    returned,   \* ghost: the samples whose store_metric call returned, in the order of return
    alerts,     \* table alerts
    wlock,      \* the connection holding SQLite's write lock (0: none)
    client,     \* per external caller of DatabaseManager: its call in progress
    running,    \* AriaHealthCollector.running
    session,    \* AriaHealthCollector.session (0: None, l: the session start_collection call l opened)
    closed,     \* the sessions that were closed
    loop,       \* per start_collection call: where it stands, and its tick number
    task,       \* per loop and endpoint: the fetch coroutine of the current tick
    endpoints,  \* AriaHealthCollector.endpoints, set at construction
    ticks,      \* ticks started so far, all loops together
    stopped,    \* ghost, per loop: stop_collection was called while it was running
    engine,     \* the evaluate_alerts call in progress
    notified,   \* the calls of send_email_alert so far
    cycles,     \* evaluate_alerts calls started so far
    alert_rules, \* AlertManager.alert_rules, a list of rule objects
    checked,    \* the last check_alert_condition call made on its own: arguments and result
    api,        \* the AriaOperationsAPI object and its call in progress
    server,     \* the Aria Operations server: the tokens it issued and still accepts
    pool        \* the bulk_metric_collection call: its futures and its results

vars == <<now, metrics, origin, returned, alerts, wlock, client, running, session, closed,
          endpoints, loop, task, ticks, stopped, engine, notified, cycles, alert_rules, checked, api, server, pool>>

storeVars == <<metrics, origin, returned, alerts, wlock, client>>
collectorVars == <<running, session, closed, endpoints, loop, task, ticks, stopped>>
engineVars == <<engine, notified, cycles>>
apiVars == <<api, server, pool>>
ruleVars == <<alert_rules, checked>>

\* ------------------------------------------------------- time and text
Instants == 0..MaxClock

\* sqlite3's default adapter: datetime.isoformat(" "), whose fields are zero
\* padded and whose fraction is left out when it is zero.  Characters are code
\* points: "0" is 48, "." is 46.
AdaptDatetime(n) ==
    LET h == EpochHour + (n \div 2)
    IN  <<48 + (h \div 10), 48 + (h % 10)>> \o (IF n % 2 = 0 THEN <<>> ELSE <<46, 53>>)

\* SQLite's comparison of two TEXT values (memcmp, the shorter first on a tie).
TextLess(a, b) ==
    \E i \in 1..(Len(b)) :
        /\ \A j \in 1..(i - 1) : j <= Len(a) /\ a[j] = b[j]
        /\ (i > Len(a) \/ (i <= Len(a) /\ a[i] < b[i]))

TextLeq(a, b) == a = b \/ TextLess(a, b)

\* Mutant of HoursBefore: the window is twice as long.
HoursBeforeDoubled(n, hours_back) == n - 4 * hours_back

\* datetime.now() - timedelta(hours=hours_back)
HoursBefore(n, hours_back) == n - 2 * hours_back

\* ------------------------------------------------------------- samples
CpuUsage == <<"cpu", "_usage">>
CpuUsageVm1 == <<"cpu", "_usage", "_", "vm1">>
MemoryUsage == <<"memory", "_usage">>
DeploymentSuccessRate == <<"deployment", "_success_rate">>
ActiveDeployments == <<"active", "_deployments">>
NetworkFlows == <<"network", "_flows_per_second">>
NetworkLatency == <<"network", "_latency_avg">>
ClusterHealth(resource_name) == <<"cluster", "_health", "_", resource_name>>
ClusterCpuUsage(resource_name) == <<"cluster_", "cpu", "_usage", "_", resource_name>>

HealthMetric(endpoint, metric_name, value, unit, timestamp, status) ==
    [endpoint |-> endpoint, metric_name |-> metric_name, value |-> value,
     unit |-> unit, timestamp |-> timestamp, status |-> status]

\* The row INSERT writes for a HealthMetric: the columns in order, the
\* timestamp adapted to text.
RowOf(m) ==
    [endpoint |-> m.endpoint, metric_name |-> m.metric_name, value |-> m.value,
     unit |-> m.unit, timestamp |-> AdaptDatetime(m.timestamp), status |-> m.status]

\* ------------------------------------------------------- DatabaseManager
\* Mutant of InsertRow: INSERT OR REPLACE on a table keyed by endpoint and
\* metric_name, where the new row takes the place of the stream's last one.
UpsertRow(rows, row) ==
    Append(SelectSeq(rows, LAMBDA r : ~(r.endpoint = row.endpoint /\ r.metric_name = row.metric_name)),
           row)

\* INSERT INTO metrics: the table grows by one row at its end.
InsertRow(rows, row) == Append(rows, row)

\* Mutant of MetricsAfterStore: a store with a retention of one row, which
\* deletes the oldest row when it inserts into a table that has two or more.
MetricsAfterStoreTrimmed(rows, m, ok) ==
    IF ok THEN InsertRow(IF Len(rows) >= 2 THEN Tail(rows) ELSE rows, RowOf(m)) ELSE rows

\* A whole store_metric call made within one step of its caller: the INSERT
\* needs the write lock, and the call raises (ok = FALSE) when it cannot
\* get it or the write fails; then nothing is stored.
MetricsAfterStore(rows, m, ok) == IF ok THEN InsertRow(rows, RowOf(m)) ELSE rows

RECURSIVE StoreAll(_, _)
StoreAll(rows, batch) ==
    IF batch = <<>> THEN rows
    ELSE StoreAll(MetricsAfterStore(rows, Head(batch), TRUE), Tail(batch))

\* Mutant of StoreBatch: the loop catches the failure of a call and goes on
\* with the next sample.
StoreBatchSkipsFailed(rows, batch, k) ==
    StoreAll(rows, SubSeq(batch, 1, k) \o SubSeq(batch, k + 2, Len(batch)))

\* for metric in metrics: self.db_manager.store_metric(metric), where the
\* first k calls return and call k + 1, if there is one, raises: the loop
\* ends there, and what was stored stays stored.
StoreBatch(rows, batch, k) == StoreAll(rows, SubSeq(batch, 1, k))

\* An optional argument is <<>> (None) or <<v>>.  "if endpoint:" is Python's
\* truth test: None and the empty string both leave the filter out.
Truthy(opt, empty) == opt /= <<>> /\ opt[1] /= empty

\* WHERE timestamp >= ? [AND endpoint = ?] [AND metric_name = ?]
Selected(rows, endpoint, metric_name, hours_back, at) ==
    LET cutoff == AdaptDatetime(HoursBefore(at, hours_back))
        Keep(r) == /\ TextLeq(cutoff, r.timestamp)
                   /\ (Truthy(endpoint, "") => r.endpoint = endpoint[1])
                   /\ (Truthy(metric_name, <<>>) => r.metric_name = metric_name[1])
    IN  SelectSeq(rows, Keep)

RemoveAt(s, i) == SubSeq(s, 1, i - 1) \o SubSeq(s, i + 1, Len(s))

\* Mutant of FirstNewest: ORDER BY timestamp, the oldest row first.
FirstOldest(s, rev) ==
    LET Top == {i \in 1..Len(s) : \A j \in 1..Len(s) : TextLeq(s[i].timestamp, s[j].timestamp)}
    IN  IF rev THEN CHOOSE i \in Top : \A j \in Top : j <= i
        ELSE CHOOSE i \in Top : \A j \in Top : i <= j

\* The place of the row ORDER BY timestamp DESC gives first: one of the
\* greatest timestamp.  SQL leaves the order of equal timestamps open; SQLite
\* gives them in rowid order (a sort) or in reverse rowid order (a backward
\* scan of idx_metrics_timestamp): rev tells which.
FirstNewest(s, rev) ==
    LET Top == {i \in 1..Len(s) : \A j \in 1..Len(s) : TextLeq(s[j].timestamp, s[i].timestamp)}
    IN  IF rev THEN CHOOSE i \in Top : \A j \in Top : j <= i
        ELSE CHOOSE i \in Top : \A j \in Top : i <= j

RECURSIVE OrderByTimestampDesc(_, _)
OrderByTimestampDesc(s, rev) ==
    IF s = <<>> THEN <<>>
    ELSE LET i == FirstNewest(s, rev)
         IN  <<s[i]>> \o OrderByTimestampDesc(RemoveAt(s, i), rev)

\* get_metrics(endpoint, metric_name, hours_back) run at instant `at` on the
\* committed rows.
get_metrics(rows, endpoint, metric_name, hours_back, at, rev) ==
    OrderByTimestampDesc(Selected(rows, endpoint, metric_name, hours_back, at), rev)

\* The calls other threads make on the DatabaseManager.  Each call opens a
\* connection of its own; SQLite lets one connection at a time write.
Clients == 1..NumClients

Idle == [pc |-> "idle"]

\* The samples the callers store: one metric stream at every instant and a
\* second one at the first and the last, so that a sample may be older or
\* newer than the ones stored before it.
SampleInputs ==
    {HealthMetric("Aria Operations", CpuUsageVm1, 90000, "percent", t, "warning") : t \in Instants}
        \cup {HealthMetric("Aria Automation", MemoryUsage, 70000, "percent", t, "healthy") :
                 t \in {0, MaxClock}}

\* hours_back=1, the lookback evaluate_alerts asks for.
LookbackHours == 1

\* Mutant of VisibleRows: a read sees the rows of transactions in progress.
UncommittedRows ==
    metrics \o (IF wlock = 0 THEN <<>> ELSE <<RowOf(client[wlock].metric)>>)

\* The rows a SELECT sees: the committed ones.
VisibleRows == metrics

\* store_metric, conn.execute(INSERT): the connection takes the write lock
\* and holds the new row in its transaction.
BeginStore(c, m) ==
    /\ client[c].pc = "idle"
    /\ wlock = 0
    /\ Len(metrics) < MaxRows
    /\ wlock' = c
    /\ client' = [client EXCEPT ![c] = [pc |-> "insert", metric |-> m]]
    /\ UNCHANGED <<apiVars, ruleVars, now, metrics, origin, returned, alerts, collectorVars, engineVars>>

\* store_metric, conn.execute(INSERT) while another connection holds the
\* write lock: sqlite3 raises "database is locked" and the call stores nothing.
StoreLocked(c) ==
    /\ client[c].pc = "idle"
    /\ wlock /= 0
    /\ client' = [client EXCEPT ![c] = [pc |-> "raised"]]
    /\ UNCHANGED <<apiVars, ruleVars, now, metrics, origin, returned, alerts, wlock, collectorVars, engineVars>>

\* store_metric, the end of the with block: the transaction commits and the
\* call returns, or the commit fails, the transaction is rolled back and the
\* call raises.
CommitStore(c) ==
    /\ client[c].pc = "insert"
    /\ wlock' = 0
    /\ \/ /\ metrics' = InsertRow(metrics, RowOf(client[c].metric))
          /\ origin' = Append(origin, <<0, 0, 0>>)
          /\ returned' = Append(returned, client[c].metric)
          /\ client' = [client EXCEPT ![c] = Idle]
       \/ /\ client' = [client EXCEPT ![c] = [pc |-> "raised"]]
          /\ UNCHANGED <<metrics, origin, returned>>
    /\ UNCHANGED <<apiVars, ruleVars, now, alerts, collectorVars, engineVars>>

\* A get_metrics call of a thread.  seen and beside are ghosts: the number
\* of rows committed when the SELECT ran, and the connection that held a
\* row in an open transaction then.
Query(c, endpoint, metric_name, hours_back, rev) ==
    /\ client[c].pc = "idle"
    /\ client' = [client EXCEPT ![c] =
                    [pc |-> "got", endpoint |-> endpoint, metric_name |-> metric_name,
                     hours_back |-> hours_back, at |-> now, rev |-> rev, seen |-> Len(metrics),
                     beside |-> wlock,
                     result |-> get_metrics(VisibleRows, endpoint, metric_name, hours_back, now, rev)]]
    /\ UNCHANGED <<apiVars, ruleVars, now, metrics, origin, returned, alerts, wlock, collectorVars, engineVars>>

\* The caller is done with what its call gave or raised.
Return(c) ==
    /\ client[c].pc \in {"got", "raised"}
    /\ client' = [client EXCEPT ![c] = Idle]
    /\ UNCHANGED <<apiVars, ruleVars, now, metrics, origin, returned, alerts, wlock, collectorVars, engineVars>>

\* --------------------------------------------------- AriaHealthCollector
AriaEndpoint(name, type, enabled) == [name |-> name, type |-> type, enabled |-> enabled]

\* The endpoint list main() configures.
MainEndpoints ==
    << AriaEndpoint("Aria Operations", "operations", TRUE),
       AriaEndpoint("Aria Automation", "automation", TRUE) >>

\* A list with one endpoint of every type and a disabled one.
LabEndpoints ==
    << AriaEndpoint("Aria Operations", "operations", TRUE),
       AriaEndpoint("Aria Automation", "automation", TRUE),
       AriaEndpoint("Aria Network Insight", "network-insight", TRUE),
       AriaEndpoint("Aria Lab", "automation", FALSE) >>

E == 1..Len(endpoints)
Loops == 1..MaxLoops

\* What the resource list of a 200 answer may hold: a resource with a name,
\* and an entry that is no object, on which resource.get raises.
ResourceKinds == {"vc01", "bad"}

RECURSIVE SeqsUpTo(_, _)
SeqsUpTo(S, n) ==
    IF n = 0 THEN {<<>>}
    ELSE LET shorter == SeqsUpTo(S, n - 1)
         IN  shorter \cup {Append(s, x) : s \in {t \in shorter : Len(t) = n - 1}, x \in S}

ResourceLists == SeqsUpTo(ResourceKinds, MaxResources)

\* The two metrics process_operations_resources builds for one resource.
ResourceMetrics(ep, resource_name, at) ==
    << HealthMetric(ep.name, ClusterHealth(resource_name), 95000, "percent", at, "healthy"),
       HealthMetric(ep.name, ClusterCpuUsage(resource_name), 65500, "percent", at, "healthy") >>

\* The resources before the first one resource.get raises on.
RECURSIVE GoodPrefix(_)
GoodPrefix(resources) ==
    IF resources = <<>> \/ Head(resources) = "bad" THEN <<>>
    ELSE <<Head(resources)>> \o GoodPrefix(Tail(resources))

RECURSIVE OperationsBatch(_, _, _)
OperationsBatch(ep, resources, at) ==
    IF resources = <<>> THEN <<>>
    ELSE ResourceMetrics(ep, Head(resources), at) \o OperationsBatch(ep, Tail(resources), at)

AutomationBatch(ep, at) ==
    << HealthMetric(ep.name, DeploymentSuccessRate, 98500, "percent", at, "healthy"),
       HealthMetric(ep.name, ActiveDeployments, 45000, "count", at, "healthy") >>

NetworkInsightBatch(ep, at) ==
    << HealthMetric(ep.name, NetworkFlows, 15420000, "flows/sec", at, "healthy"),
       HealthMetric(ep.name, NetworkLatency, 2300, "ms", at, "healthy") >>

\* The samples the fetch of endpoint e goes through, in the order of its
\* store_metric calls.
BatchOf(e, resources, at) ==
    LET ep == endpoints[e]
    IN  CASE ep.type = "operations" -> OperationsBatch(ep, GoodPrefix(resources), at)
          [] ep.type = "automation" -> AutomationBatch(ep, at)
          [] ep.type = "network-insight" -> NetworkInsightBatch(ep, at)
          [] OTHER -> <<>>

\* The coroutine of one endpoint in a tick: where it stands, why it failed,
\* the session its request went out on, whether authenticate_operations gave
\* it a token (auth_token), and the samples it went through.
NoTask == [st |-> "none", why |-> "", sess |-> 0, token |-> FALSE, batch |-> <<>>]
Finished == {"none", "ok", "failed"}

\* Mutant of NewTask: "if endpoint.enabled" is missing.
NewTaskIgnoresEnabled(e) ==
    LET ep == endpoints[e]
    IN  IF ep.type \in {"operations", "automation", "network-insight"}
        THEN [NoTask EXCEPT !.st = "new"]
        ELSE NoTask

\* collect_all_metrics: the coroutine each enabled endpoint of a known type gets.
NewTask(e) ==
    LET ep == endpoints[e]
    IN  IF ep.enabled /\ ep.type \in {"operations", "automation", "network-insight"}
        THEN [NoTask EXCEPT !.st = "new"]
        ELSE NoTask

\* Mutant of FailTask: the exception leaves the coroutine and gather, and
\* takes the coroutines still running with it.
FailTaskAbortsTick(ts, e, why) ==
    [d \in E |-> IF d = e \/ ts[d].st \notin Finished
                 THEN [ts[d] EXCEPT !.st = "failed", !.why = why]
                 ELSE ts[d]]

\* except Exception as e: logger.error(...): the coroutine of e returns, the
\* others are left as they are.
FailTask(ts, e, why) == [ts EXCEPT ![e].st = "failed", ![e].why = why]

\* Mutant of SessionHasTimeout: the session is built with
\* timeout=ClientTimeout(total=None).
SessionWithoutTimeout == FALSE

\* aiohttp.ClientSession(connector=connector) names no timeout, so the
\* session keeps aiohttp's default ClientTimeout (total = 300 s): a request
\* to an endpoint that never answers raises asyncio.TimeoutError.
SessionHasTimeout == TRUE

\* How a request may end: an answer of status 200, an answer of another
\* status, an exception, and no answer at all.
RequestOutcomes == {"200", "status", "error", "timeout"}

\* A request on a session that is closed meanwhile ends in an exception.
OutcomesOn(sess) == IF sess \in closed THEN {"error"} ELSE RequestOutcomes

\* The coroutine of e after its request got no answer.
OnSilent(ts, e) ==
    IF SessionHasTimeout THEN FailTask(ts, e, "timeout")
    ELSE [ts EXCEPT ![e].st = "hung"]

\* self.session.post / self.session.get: a closed session raises at once,
\* an open one suspends the coroutine until the answer.
Request(ts, e, awaiting) ==
    IF session \in closed THEN FailTask(ts, e, "fetch")
    ELSE [ts EXCEPT ![e].st = awaiting, ![e].sess = session]

Tag(l, e) == <<l, loop[l].tick, e>>

Repeat(x, n) == [i \in 1..n |-> x]

\* The rows a step stores; every row it adds gets the ghost tag of its fetch.
StoreFromTask(l, e, batch, k) ==
    /\ metrics' = StoreBatch(metrics, batch, k)
    /\ origin' = origin \o Repeat(Tag(l, e), Len(metrics') - Len(metrics))
    /\ returned' = returned \o SubSeq(batch, 1, k)

\* start_collection up to its loop: the flag is set and a new session
\* replaces whatever self.session held.
StartCollection(l) ==
    /\ loop[l].pc = "new"
    /\ \A k \in Loops : k < l => loop[k].pc /= "new"
    /\ running' = TRUE
    /\ session' = l
    /\ loop' = [loop EXCEPT ![l].pc = "check"]
    /\ UNCHANGED <<apiVars, ruleVars, now, endpoints, storeVars, closed, task, ticks, stopped, engineVars>>

\* while self.running: a tick starts, collect_all_metrics builds its tasks.
StartTick(l) ==
    /\ loop[l].pc = "check"
    /\ running
    /\ ticks < MaxTicks
    /\ ticks' = ticks + 1
    /\ loop' = [loop EXCEPT ![l] = [pc |-> "polling", tick |-> @.tick + 1]]
    /\ task' = [task EXCEPT ![l] = [e \in E |-> NewTask(e)]]
    /\ UNCHANGED <<apiVars, ruleVars, now, endpoints, storeVars, running, session, closed, stopped, engineVars>>

\* while self.running is false: finally closes what self.session holds now.
ExitLoop(l) ==
    /\ loop[l].pc = "check"
    /\ ~running
    /\ loop' = [loop EXCEPT ![l].pc = "done"]
    /\ closed' = IF session /= 0 THEN closed \cup {session} ELSE closed
    /\ UNCHANGED <<apiVars, ruleVars, now, endpoints, storeVars, running, session, task, ticks, stopped, engineVars>>

\* asyncio runs the tasks gather made first come first served: each runs, in
\* the order of the list, up to its first suspension.
MayStart(l, e) ==
    /\ loop[l].pc = "polling"
    /\ task[l][e].st = "new"
    /\ \A d \in E : d < e => task[l][d].st /= "new"

\* collect_operations_metrics up to the POST of authenticate_operations.
BeginOperations(l, e) ==
    /\ MayStart(l, e)
    /\ endpoints[e].type = "operations"
    /\ task' = [task EXCEPT ![l] = Request(@, e, "auth")]
    /\ UNCHANGED <<apiVars, ruleVars, now, endpoints, storeVars, running, session, closed, loop, ticks, stopped, engineVars>>

\* Mutant of AfterAuthentication: "if not auth_token: return" is missing,
\* and an answer without a token goes on to the GET.
AfterAuthenticationUnchecked(ts, e, o) ==
    CASE o = "200" -> Request([ts EXCEPT ![e].token = TRUE], e, "get")
      [] o = "no token" -> Request(ts, e, "get")
      [] o = "timeout" -> OnSilent(ts, e)
      [] OTHER -> FailTask(ts, e, "auth")

\* collect_operations_metrics after authenticate_operations returned: with
\* a token it goes on to the GET of the resources; every exception, every
\* status but 200 and every answer without a token gave None, on which it
\* returns.
AfterAuthentication(ts, e, o) ==
    CASE o = "200" -> Request([ts EXCEPT ![e].token = TRUE], e, "get")
      [] o = "timeout" -> OnSilent(ts, e)
      [] OTHER -> FailTask(ts, e, "auth")

\* authenticate_operations from the answer to its POST on.
Authenticate(l, e) ==
    /\ loop[l].pc = "polling"
    /\ task[l][e].st = "auth"
    /\ \E o \in OutcomesOn(task[l][e].sess) \cup {"no token"} :
          task' = [task EXCEPT ![l] = AfterAuthentication(@, e, o)]
    /\ UNCHANGED <<apiVars, ruleVars, now, endpoints, storeVars, running, session, closed, loop, ticks, stopped, engineVars>>

\* The answer to the GET and, on 200, process_operations_resources, which
\* has no await: its store_metric calls follow each other in one turn of the
\* event loop.  k of them return; the next one, if any, raises.
CollectOperations(l, e) ==
    /\ loop[l].pc = "polling"
    /\ task[l][e].st = "get"
    /\ \/ /\ \E o \in OutcomesOn(task[l][e].sess) \ {"200"} :
                task' = [task EXCEPT ![l] =
                           IF o = "timeout" THEN OnSilent(@, e) ELSE FailTask(@, e, "fetch")]
          /\ UNCHANGED <<metrics, origin, returned>>
       \/ /\ "200" \in OutcomesOn(task[l][e].sess)
          /\ \E resources \in ResourceLists :
                LET batch == BatchOf(e, resources, now)
                IN  \E k \in 0..Len(batch) :
                       /\ StoreFromTask(l, e, batch, k)
                       /\ task' = [task EXCEPT ![l] =
                             IF k < Len(batch) THEN
                                 [FailTask(@, e, "store") EXCEPT ![e].batch = batch]
                             ELSE IF GoodPrefix(resources) /= resources THEN
                                 [FailTask(@, e, "fetch") EXCEPT ![e].batch = batch]
                             ELSE [@ EXCEPT ![e].st = "ok", ![e].batch = batch]]
    /\ UNCHANGED <<apiVars, ruleVars, now, endpoints, alerts, wlock, client, running, session, closed, loop, ticks, stopped, engineVars>>

\* collect_automation_metrics and collect_network_insight_metrics: no await,
\* the batch is built and stored in one turn of the event loop.
CollectSimulated(l, e) ==
    /\ MayStart(l, e)
    /\ endpoints[e].type \in {"automation", "network-insight"}
    /\ LET batch == BatchOf(e, <<>>, now)
       IN  \E k \in 0..Len(batch) :
              /\ StoreFromTask(l, e, batch, k)
              /\ task' = [task EXCEPT ![l] =
                    IF k < Len(batch) THEN [FailTask(@, e, "store") EXCEPT ![e].batch = batch]
                    ELSE [@ EXCEPT ![e].st = "ok", ![e].batch = batch]]
    /\ UNCHANGED <<apiVars, ruleVars, now, endpoints, alerts, wlock, client, running, session, closed, loop, ticks, stopped, engineVars>>

\* await asyncio.gather(*tasks, return_exceptions=True) returns when every
\* task has finished.
GatherReturns(ts) == \A e \in E : ts[e].st \in Finished

\* Mutant of FinishTick: the exception of a store_metric call is not caught
\* in the coroutine; it leaves collect_all_metrics and start_collection,
\* whose finally closes the session.
FinishTickRaises(l) ==
    /\ loop[l].pc = "polling"
    /\ GatherReturns(task[l])
    /\ LET raised == \E e \in E : task[l][e].why = "store"
       IN  /\ loop' = [loop EXCEPT ![l].pc = IF raised THEN "done" ELSE "sleep"]
           /\ closed' = IF raised /\ session /= 0 THEN closed \cup {session} ELSE closed
    /\ task' = [task EXCEPT ![l] = [e \in E |-> NoTask]]
    /\ UNCHANGED <<apiVars, ruleVars, now, endpoints, storeVars, running, session, ticks, stopped, engineVars>>

\* Mutant of FinishTick: collect_all_metrics waits for the first fetch to
\* finish only, and the others run on while the loop sleeps.
FinishTickEarly(l) ==
    /\ loop[l].pc = "polling"
    /\ \E e \in E : task[l][e].st \in Finished
    /\ loop' = [loop EXCEPT ![l].pc = "sleep"]
    /\ UNCHANGED <<apiVars, ruleVars, now, endpoints, storeVars, running, session, closed, task,
                   ticks, stopped, engineVars>>

\* collect_all_metrics returns, dropping what gather returned, and the loop
\* goes to sleep.
FinishTick(l) ==
    /\ loop[l].pc = "polling"
    /\ GatherReturns(task[l])
    /\ loop' = [loop EXCEPT ![l].pc = "sleep"]
    /\ task' = [task EXCEPT ![l] = [e \in E |-> NoTask]]
    /\ UNCHANGED <<apiVars, ruleVars, now, endpoints, storeVars, running, session, closed, ticks, stopped, engineVars>>

\* await asyncio.sleep(interval_seconds) returns.
Wake(l) ==
    /\ loop[l].pc = "sleep"
    /\ loop' = [loop EXCEPT ![l].pc = "check"]
    /\ UNCHANGED <<apiVars, ruleVars, now, endpoints, storeVars, running, session, closed, task, ticks, stopped, engineVars>>

\* A loop in a tick or in the sleep between two ticks.
Active == {"polling", "sleep"}

\* Mutant of StopCollection: stopping also cancels the fetches in flight.
StopCancelsFetches ==
    /\ running' = FALSE
    /\ stopped' = [l \in Loops |-> stopped[l] \/ (running /\ loop[l].pc \in Active)]
    /\ task' = [l \in Loops |-> [e \in E |->
                   IF task[l][e].st \in Finished THEN task[l][e]
                   ELSE [task[l][e] EXCEPT !.st = "failed", !.why = "cancelled"]]]
    /\ UNCHANGED <<apiVars, ruleVars, now, endpoints, storeVars, session, closed, loop, ticks, engineVars>>

\* stop_collection
StopCollection ==
    /\ running' = FALSE
    /\ stopped' = [l \in Loops |-> stopped[l] \/ (running /\ loop[l].pc \in Active)]
    /\ UNCHANGED <<apiVars, ruleVars, now, endpoints, storeVars, session, closed, loop, task, ticks, engineVars>>

\* ----------------------------------------------------------- AlertManager
AlertRule(name, metric_pattern, condition, threshold, severity, enabled) ==
    [name |-> name, metric_pattern |-> metric_pattern, condition |-> condition,
     threshold |-> threshold, severity |-> severity, enabled |-> enabled]

\* AlertManager.alert_rules: the two rules main() configures, and rules of
\* the other conditions and severities the dataclass allows, one disabled.
AlertRules ==
    << AlertRule("High CPU Usage", CpuUsage, "greater_than", 85000, "warning", TRUE),
       AlertRule("Critical CPU Usage", CpuUsage, "greater_than", 95000, "critical", TRUE),
       AlertRule("Low Success Rate", <<"deployment">>, "less_than", 99000, "info", TRUE),
       AlertRule("Memory At Limit", MemoryUsage, "equals", 70000, "info", TRUE),
       AlertRule("Memory In Use", <<"memory">>, "greater_than", 50000, "critical", FALSE) >>

\* Mutant of Contains: a name matches when it has a part in common with the
\* pattern.
SharesPart(pattern, name) ==
    \E i \in 1..Len(pattern), j \in 1..Len(name) : pattern[i] = name[j]

\* rule.metric_pattern in m['metric_name']: the pattern is a substring.
Contains(pattern, name) ==
    \E k \in 0..(Len(name) - Len(pattern)) : SubSeq(name, k + 1, k + Len(pattern)) = pattern

\* Mutant of check_alert_condition: greater_than admits the threshold itself.
check_alert_condition_inclusive(rule, value) ==
    CASE rule.condition = "greater_than" -> value >= rule.threshold
      [] rule.condition = "less_than" -> value <= rule.threshold
      [] rule.condition = "equals" -> value = rule.threshold
      [] OTHER -> FALSE

\* The binary exponent of the double nearest to n thousandths, for n of one
\* thousand and more: the e with 2^e <= n/1000 < 2^(e+1).
RECURSIVE ExponentFrom(_, _)
ExponentFrom(n, e) == IF n < 1000 * 2^(e + 1) THEN e ELSE ExponentFrom(n, e + 1)
Exponent(n) == ExponentFrom(n, 0)

RECURSIVE Pow2Mod(_, _)
Pow2Mod(k, m) == IF k = 0 THEN 1 % m ELSE (2 * Pow2Mod(k - 1, m)) % m

\* A decimal of n thousandths is held as the nearest double, whose mantissa
\* has 53 bits.  In units of the last mantissa bit n/1000 is n * 2^(52-e) /
\* 1000, with the fraction r/1000 below; the double is that number rounded
\* to the nearest integer.  RoundingError is the double minus the decimal,
\* in thousandths of that unit.  (r is never 500: no tie.)
RoundingError(n) ==
    LET r == ((n % 1000) * Pow2Mod(52 - Exponent(n), 1000)) % 1000
    IN  IF r < 500 THEN 0 - r ELSE 1000 - r

\* Mutant of WithinTolerance: the tolerance admits its own bound.
WithinToleranceInclusive(value, threshold) ==
    (IF value >= threshold THEN value - threshold ELSE threshold - value) <= 10

\* abs(value - threshold) < 0.01 on doubles, for operands of 1.0 and more.
\* Decimals less or more than 0.01 apart are decided by their distance.  The
\* difference of two doubles this close is exact, and 0.01 is the least
\* double above 1/100; so decimals exactly 0.01 apart pass the test when
\* the difference of their doubles falls short of 1/100, which is when the
\* rounding error of the greater is below that of the lesser (4.01 and 4.0
\* pass, 70.01 and 70.0 do not).
WithinTolerance(value, threshold) ==
    LET hi == IF value >= threshold THEN value ELSE threshold
        lo == IF value >= threshold THEN threshold ELSE value
    IN  \/ hi - lo < 10
        \/ /\ hi - lo = 10
           /\ RoundingError(hi) * 2^(Exponent(hi) - Exponent(lo)) < RoundingError(lo)

\* Mutant of check_alert_condition: greater_than is at least, less_than is
\* at most.
check_alert_condition_at_least(rule, value) ==
    CASE rule.condition = "greater_than" -> value >= rule.threshold
      [] rule.condition = "less_than" -> value <= rule.threshold
      [] rule.condition = "equals" -> WithinTolerance(value, rule.threshold)
      [] OTHER -> FALSE

\* check_alert_condition; 0.01 is 10 thousandths.
check_alert_condition(rule, value) ==
    CASE rule.condition = "greater_than" -> value > rule.threshold
      [] rule.condition = "less_than" -> value < rule.threshold
      [] rule.condition = "equals" -> WithinTolerance(value, rule.threshold)
      [] OTHER -> FALSE

\* Mutant of SendsEmail: every severity is notified.
SendsEmailAlways(severity) == severity \in {"info", "warning", "critical"}

\* trigger_alert: if rule.severity in ['warning', 'critical']
SendsEmail(severity) == severity \in {"warning", "critical"}

\* Mutant of AlertRecord: the INSERT binds value and threshold in each
\* other's place.
AlertRecordSwapped(rule, metric) ==
    [rule_name |-> rule.name, endpoint |-> metric.endpoint, metric_name |-> metric.metric_name,
     value |-> rule.threshold, threshold |-> metric.value, severity |-> rule.severity,
     acknowledged |-> FALSE]

\* Mutant of AlertRecord: the alert of an info rule is stored as
\* acknowledged.
AlertRecordInfoAcknowledged(rule, metric) ==
    [rule_name |-> rule.name, endpoint |-> metric.endpoint, metric_name |-> metric.metric_name,
     value |-> metric.value, threshold |-> rule.threshold, severity |-> rule.severity,
     acknowledged |-> (rule.severity = "info")]

\* The row store_alert writes, without its message and timestamp columns.
\* The INSERT names no acknowledged column, which takes its default.
AlertRecord(rule, metric) ==
    [rule_name |-> rule.name, endpoint |-> metric.endpoint, metric_name |-> metric.metric_name,
     value |-> metric.value, threshold |-> rule.threshold, severity |-> rule.severity,
     acknowledged |-> FALSE]

\* The samples the collector's thread stores while the alert thread runs,
\* stamped with the time of their collection.
AlertSamples ==
    { HealthMetric("Aria Operations", CpuUsageVm1, 90000, "percent", now, "warning"),
      HealthMetric("Aria Operations", CpuUsageVm1, 70000, "percent", now, "healthy"),
      HealthMetric("Aria Operations", CpuUsageVm1, 85000, "percent", now, "warning"),
      HealthMetric("Aria Operations", CpuUsage, 97000, "percent", now, "critical"),
      HealthMetric("Aria Automation", DeploymentSuccessRate, 98500, "percent", now, "healthy"),
      HealthMetric("Aria Automation", MemoryUsage, 70005, "percent", now, "healthy") }

Rules == 1..Len(AlertRules)

\* A whole store_metric call of the collector's thread, between two steps
\* of the alert thread.
StoreMetric(m) ==
    /\ Len(metrics) < MaxStored
    /\ wlock = 0
    /\ \E ok \in BOOLEAN :
          /\ metrics' = MetricsAfterStore(metrics, m, ok)
          /\ origin' = IF ok THEN Append(origin, <<0, 0, 0>>) ELSE origin
          /\ returned' = IF ok THEN Append(returned, m) ELSE returned
    /\ UNCHANGED <<apiVars, ruleVars, now, alerts, wlock, client, collectorVars, engineVars>>

\* Mutant of recent_metrics: the loops read the store again at every step.
recent_metrics_read_again ==
    get_metrics(VisibleRows, <<>>, <<>>, LookbackHours, now, FALSE)

\* recent_metrics, the local variable of evaluate_alerts: what get_metrics
\* gave at the start of the call.
recent_metrics == engine.snapshot

\* Mutant of AtPair: "if not rule.enabled: continue" is missing.
AtPairOfAnyRule ==
    /\ engine.pc = "eval"
    /\ engine.r \in Rules
    /\ engine.i <= Len(recent_metrics)

\* The loops of evaluate_alerts stand at rule r and row i of the snapshot.
AtPair ==
    /\ engine.pc = "eval"
    /\ engine.r \in Rules
    /\ alert_rules[engine.r].enabled
    /\ engine.i <= Len(recent_metrics)

\* Mutant of Triggers: a rule triggers once per metric stream in a call.
TriggersOncePerStream ==
    /\ Contains(alert_rules[engine.r].metric_pattern, recent_metrics[engine.i].metric_name)
    /\ check_alert_condition(alert_rules[engine.r], recent_metrics[engine.i].value)
    /\ \A k \in (engine.base + 1)..Len(alerts) :
          ~ /\ alerts[k].rule_name = alert_rules[engine.r].name
            /\ alerts[k].endpoint = recent_metrics[engine.i].endpoint
            /\ alerts[k].metric_name = recent_metrics[engine.i].metric_name

\* Mutant of Triggers: a pair whose alert is in the table already is skipped.
TriggersOnce ==
    /\ Contains(alert_rules[engine.r].metric_pattern, recent_metrics[engine.i].metric_name)
    /\ check_alert_condition(alert_rules[engine.r], recent_metrics[engine.i].value)
    /\ \A k \in 1..Len(alerts) :
          alerts[k] /= [rule_name |-> alert_rules[engine.r].name,
                        endpoint |-> recent_metrics[engine.i].endpoint,
                        metric_name |-> recent_metrics[engine.i].metric_name,
                        value |-> recent_metrics[engine.i].value,
                        threshold |-> alert_rules[engine.r].threshold,
                        severity |-> alert_rules[engine.r].severity,
                        acknowledged |-> FALSE]

\* The row passes "rule.metric_pattern in m['metric_name']" and
\* check_alert_condition.
Triggers ==
    /\ Contains(alert_rules[engine.r].metric_pattern, recent_metrics[engine.i].metric_name)
    /\ check_alert_condition(alert_rules[engine.r], recent_metrics[engine.i].value)

\* Mutant of AfterStoreAlertRaised: trigger_alert catches the failure of
\* store_alert and the loops go on with the next row.
AfterStoreAlertCaught(eng) == [eng EXCEPT !.i = @ + 1]

\* store_alert raises: trigger_alert and evaluate_alerts have no handler, the
\* exception leaves the call with the loops where they stand.
AfterStoreAlertRaised(eng) == [eng EXCEPT !.pc = "raised"]

\* Mutant of AfterSendEmail: send_email_alert has no handler, a failed
\* delivery leaves evaluate_alerts.
AfterSendEmailUncaught(eng, delivered) ==
    IF delivered THEN [eng EXCEPT !.pc = "eval", !.i = @ + 1]
    ELSE [eng EXCEPT !.pc = "raised", !.undelivered = <<eng.r, eng.i>>]

\* send_email_alert returns, whether the mail went out or the exception
\* was caught and logged, and the loops go on with the next row.
\* undelivered is a ghost: the pair of the last failed delivery of the call.
AfterSendEmail(eng, delivered) ==
    [eng EXCEPT !.pc = "eval", !.i = @ + 1,
                !.undelivered = IF delivered THEN @ ELSE <<eng.r, eng.i>>]

\* evaluate_alerts, its first line: the snapshot of the last hour.  base,
\* sent, seen, made and at are ghosts: the numbers of alert rows,
\* notifications and metric rows there were before the call, the pairs
\* <<rule, row>> the call has stored an alert for, and the instant of the
\* call.
EvaluateAlerts(rev) ==
    /\ engine.pc \in {"idle", "returned", "raised"}
    /\ cycles < MaxCycles
    /\ cycles' = cycles + 1
    /\ engine' = [pc |-> "eval", r |-> 1, i |-> 1, base |-> Len(alerts), sent |-> Len(notified),
                  seen |-> Len(metrics), made |-> <<>>, undelivered |-> <<>>, at |-> now,
                  snapshot |-> get_metrics(VisibleRows, <<>>, <<>>, LookbackHours, now, rev)]
    /\ UNCHANGED <<apiVars, ruleVars, now, storeVars, collectorVars, notified>>

\* evaluate_alerts: "continue" at a disabled rule, the end of the rule's
\* rows, or a row the rule does not trigger on.
NextPair ==
    /\ engine.pc = "eval"
    /\ engine.r \in Rules
    /\ ~(AtPair /\ Triggers)
    /\ engine' = IF AtPair THEN [engine EXCEPT !.i = @ + 1]
                 ELSE [engine EXCEPT !.r = @ + 1, !.i = 1]
    /\ UNCHANGED <<apiVars, ruleVars, now, storeVars, collectorVars, notified, cycles>>

\* trigger_alert, store_alert: the alert row is committed, or sqlite3 raises
\* (the database is locked by a writer, the disk is full) and the exception
\* leaves evaluate_alerts.
StoreAlert ==
    /\ AtPair /\ Triggers
    /\ \/ /\ alerts' = Append(alerts, AlertRecord(alert_rules[engine.r],
                                                  recent_metrics[engine.i]))
          /\ engine' = [engine EXCEPT !.pc = IF SendsEmail(alert_rules[engine.r].severity)
                                             THEN "stored" ELSE "eval",
                                      !.i = IF SendsEmail(alert_rules[engine.r].severity)
                                            THEN @ ELSE @ + 1,
                                      !.made = Append(@, <<engine.r, engine.i>>)]
       \/ /\ engine' = AfterStoreAlertRaised(engine)
          /\ UNCHANGED alerts
    /\ UNCHANGED <<apiVars, ruleVars, now, metrics, origin, returned, wlock, client, collectorVars, notified, cycles>>

\* Mutant of SendEmailAlert: trigger_alert notifies before it stores, once
\* per pair.
SendEmailAlertBeforeStore(delivered) ==
    /\ AtPair /\ Triggers
    /\ SendsEmail(alert_rules[engine.r].severity)
    /\ \A k \in (engine.sent + 1)..Len(notified) : notified[k].pair /= <<engine.r, engine.i>>
    /\ notified' = Append(notified, [rule_name |-> alert_rules[engine.r].name,
                                     severity |-> alert_rules[engine.r].severity,
                                     pair |-> <<engine.r, engine.i>>])
    /\ engine' = [engine EXCEPT !.undelivered = IF delivered THEN @ ELSE <<engine.r, engine.i>>]
    /\ UNCHANGED <<apiVars, ruleVars, now, storeVars, collectorVars, cycles>>

\* trigger_alert, send_email_alert: one attempt, in which the mail server
\* takes the message or an exception is raised within the try block.
SendEmailAlert(delivered) ==
    /\ engine.pc = "stored"
    /\ notified' = Append(notified, [rule_name |-> alert_rules[engine.r].name,
                                     severity |-> alert_rules[engine.r].severity,
                                     pair |-> <<engine.r, engine.i>>])
    /\ engine' = AfterSendEmail(engine, delivered)
    /\ UNCHANGED <<apiVars, ruleVars, now, storeVars, collectorVars, cycles>>

\* Mutant of EvaluateReturns: evaluate_alerts ends with a clean-up that
\* empties table metrics.
EvaluateReturnsPrunes ==
    /\ engine.pc = "eval"
    /\ engine.r \notin Rules
    /\ engine' = [engine EXCEPT !.pc = "returned"]
    /\ metrics' = <<>>
    /\ origin' = <<>>
    /\ UNCHANGED <<apiVars, ruleVars, now, returned, alerts, wlock, client, collectorVars,
                   notified, cycles>>

\* evaluate_alerts returns after the last rule.
EvaluateReturns ==
    /\ engine.pc = "eval"
    /\ engine.r \notin Rules
    /\ engine' = [engine EXCEPT !.pc = "returned"]
    /\ UNCHANGED <<apiVars, ruleVars, now, storeVars, collectorVars, notified, cycles>>

\* evaluate_alerts, its first line raises: get_metrics has no handler, and
\* sqlite3 cannot open or read the database.  No snapshot was taken.
GetMetricsRaises ==
    /\ engine.pc \in {"idle", "returned"}
    /\ cycles < MaxCycles
    /\ cycles' = cycles + 1
    /\ engine' = [pc |-> "raised", r |-> 1, i |-> 1, base |-> Len(alerts), sent |-> Len(notified),
                  seen |-> Len(metrics), made |-> <<>>, undelivered |-> <<>>, at |-> now,
                  snapshot |-> <<>>]
    /\ UNCHANGED <<apiVars, ruleVars, now, storeVars, collectorVars, notified>>

\* Mutant of RunAlerts: run_alerts calls evaluate_alerts once, with no loop.
RunAlertsOnce(rev) ==
    /\ engine.pc = "idle"
    /\ EvaluateAlerts(rev)

\* run_alerts, the target of the alert thread: "while True" calls
\* evaluate_alerts, when the thread starts and each time time.sleep(60) has
\* returned.  The loop has no try: an exception that left evaluate_alerts
\* leaves run_alerts too, and the thread ends.
RunAlerts(rev) ==
    /\ engine.pc \in {"idle", "returned"}
    /\ EvaluateAlerts(rev)

\* What an edit makes of a rule object: AlertRule is a plain dataclass whose
\* fields can be assigned.
RuleEdits(rule) ==
    { [rule EXCEPT !.threshold = 60000],
      [rule EXCEPT !.severity = "critical"],
      [rule EXCEPT !.enabled = ~@] } \ {rule}

\* The rules that are no longer as main configured them.
Edited == {r \in Rules : alert_rules[r] /= AlertRules[r]}

\* The owner of the rule list assigns a field of rule r, between two steps
\* of the alert thread.
EditRule(r, new) ==
    /\ Cardinality(Edited) < MaxEdits
    /\ new \in RuleEdits(alert_rules[r])
    /\ alert_rules' = [alert_rules EXCEPT ![r] = new]
    /\ UNCHANGED <<apiVars, checked, now, storeVars, collectorVars, engineVars>>

\* The arguments of a check_alert_condition call: the conditions of the
\* dataclass and one it does not know, thresholds, and values at and around
\* each threshold.
Conditions == {"greater_than", "less_than", "equals", "not_equals"}
Thresholds == {4000, 70000, 80000}
Offsets == {-100, -20, -10, -9, -5, 0, 5, 9, 10, 20, 100}

\* check_alert_condition is called with a rule and a value.
CheckCondition(condition, threshold, offset) ==
    LET rule == AlertRule("probe", CpuUsage, condition, threshold, "info", TRUE)
        value == threshold + offset
    IN  /\ checked' = [rule |-> rule, value |-> value,
                       result |-> check_alert_condition(rule, value)]
        /\ UNCHANGED <<apiVars, alert_rules, now, storeVars, collectorVars, engineVars>>

\* Time passes.
AdvanceClock ==
    /\ now < MaxClock
    /\ now' = now + 1
    /\ UNCHANGED <<storeVars, collectorVars, engineVars, apiVars, ruleVars>>

\* ------------------------------------------------------ AriaOperationsAPI
\* Tokens are numbered in the order the server issues them; 0 is None.
Tokens == 1..MaxTokens

\* __init__: no token, no call in progress.  header is the token in the
\* Authorization header of self.session (0: no header).  The ghosts: rejected, the
\* tokens that a domain request was answered 401 for; gets, the GETs of the
\* get_resources call, in order: the page asked for, the outcome and the
\* number of resources in the answer; held, the token the client had when
\* the call began; posts, the outcomes of the authenticate calls made within
\* the call; sent, the number of domain requests the call has issued.
AriaOperationsAPI ==
    [auth_token |-> 0, pc |-> "idle", op |-> "", page |-> 0, all |-> <<>>,
     result |-> <<>>, calls |-> 0, rejected |-> {}, gets |-> <<>>,
     held |-> 0, posts |-> <<>>, sent |-> 0, header |-> 0]

\* The methods that query domain data, and what each returns when it fails:
\* create_alert_definition returns False, the others [].
Operations == {"get_resources", "get_metrics", "create_alert_definition", "get_active_alerts"}

EmptyResult(op) == IF op = "create_alert_definition" THEN FALSE ELSE <<>>

\* The n resources the server lists on page p.
ResourcePage(p, n) == [k \in 1..n |-> <<p, k>>]

\* The test that guards authenticate in get_resources: not self.auth_token.
HasToken(a) == a.auth_token /= 0

\* get_resources is called: it authenticates first when it holds no token,
\* and starts at page 0.
GetResources ==
    /\ api.pc = "idle"
    /\ api.calls < MaxCalls
    /\ api' = [api EXCEPT !.pc = IF HasToken(api) THEN "get" ELSE "authenticate",
                          !.op = "get_resources", !.page = 0, !.all = <<>>, !.result = <<>>,
                          !.calls = @ + 1, !.gets = <<>>,
                          !.held = api.auth_token, !.posts = <<>>, !.sent = 0]
    /\ UNCHANGED <<pool, ruleVars, now, storeVars, collectorVars, engineVars, server>>

\* The caller calls authenticate itself, as main does.
CallAuthenticate ==
    /\ api.pc = "idle"
    /\ api.calls < MaxCalls
    /\ api' = [api EXCEPT !.pc = "authenticate", !.op = "authenticate",
                          !.calls = @ + 1, !.result = <<>>,
                          !.held = api.auth_token, !.posts = <<>>, !.sent = 0]
    /\ UNCHANGED <<pool, ruleVars, now, storeVars, collectorVars, engineVars, server>>

\* get_metrics, create_alert_definition and get_active_alerts are called:
\* each authenticates first when the client holds no token, and then issues
\* its one request.
Call(op) ==
    /\ api.pc = "idle"
    /\ api.calls < MaxCalls
    /\ api' = [api EXCEPT !.pc = IF HasToken(api) THEN "request" ELSE "authenticate",
                          !.op = op, !.result = EmptyResult(op), !.calls = @ + 1,
                          !.held = api.auth_token, !.posts = <<>>, !.sent = 0]
    /\ UNCHANGED <<pool, ruleVars, now, storeVars, collectorVars, engineVars, server>>

GetMetrics == Call("get_metrics")

CreateAlertDefinition == Call("create_alert_definition")

GetActiveAlerts == Call("get_active_alerts")

\* The call in progress returns.
ReturnResources(a, resources) == [a EXCEPT !.pc = "idle", !.result = resources]

\* authenticate: the POST is answered with a token, which auth_token becomes,
\* with a body that has none, which makes auth_token None, or fails with a
\* RequestException, which leaves auth_token as it was.  Without a token
\* get_resources returns [].
AuthenticateOutcomes == {"token", "notoken", "error"}

\* Where a call goes on when authenticate returned True: get_resources to
\* its page loop, the other methods to their request, and a direct call of
\* authenticate returns.
AfterToken(op) ==
    CASE op = "get_resources" -> "get"
      [] op = "authenticate" -> "idle"
      [] OTHER -> "request"

\* Mutant of AfterAuthenticate: the methods go on to their request whether
\* authenticate returned True or False.
AfterAuthenticateAnyway(a, o, token) ==
    [a EXCEPT !.auth_token = IF o = "token" THEN token ELSE IF o = "notoken" THEN 0 ELSE @,
              !.header = IF o = "token" THEN token ELSE @,
              !.posts = Append(@, o),
              !.pc = AfterToken(a.op)]

\* authenticate from the answer to its POST on, and the test of what it
\* returned: "if not self.authenticate(): return []" (or False).
AfterAuthenticate(a, o, token) ==
    IF o = "token"
    THEN [a EXCEPT !.auth_token = token, !.header = token, !.posts = Append(@, o),
                   !.pc = AfterToken(a.op)]
    ELSE ReturnResources([a EXCEPT !.auth_token = IF o = "notoken" THEN 0 ELSE @,
                                   !.posts = Append(@, o)],
                         EmptyResult(a.op))

authenticate(o) ==
    /\ api.pc = "authenticate"
    /\ o \in AuthenticateOutcomes
    /\ IF o = "token"
       THEN /\ server.issued < MaxTokens
            /\ server' = [issued |-> server.issued + 1,
                          valid |-> server.valid \cup {server.issued + 1}]
            /\ api' = AfterAuthenticate(api, o, server.issued + 1)
       ELSE /\ api' = AfterAuthenticate(api, o, 0)
            /\ UNCHANGED server
    /\ UNCHANGED <<pool, ruleVars, now, storeVars, collectorVars, engineVars>>

\* One GET of the page loop.  The server answers 401 to a token it no longer
\* accepts; raise_for_status turns that, like any failed request, into a
\* RequestException, and get_resources returns [] with auth_token as it was.
\* A 200 answer carries n resources: none ends the loop, fewer than page_size
\* ends it after them, page_size asks for the next page.
PageOutcomes == {"200", "401", "error"}

\* Mutant of AfterPage: a failed request ends the call with the pages
\* received so far.
AfterPageKeepsReceived(a, o, n) ==
    CASE o = "401" -> ReturnResources([a EXCEPT !.rejected = @ \cup {a.auth_token}], a.all)
      [] o = "error" -> ReturnResources(a, a.all)
      [] o = "200" /\ n = 0 -> ReturnResources(a, a.all)
      [] o = "200" /\ n > 0 /\ n < PageSize ->
           ReturnResources(a, a.all \o ResourcePage(a.page, n))
      [] OTHER -> [a EXCEPT !.all = @ \o ResourcePage(a.page, n), !.page = @ + 1]

\* The body of "while True" from the answer to the GET on.
AfterPage(a, o, n) ==
    CASE o = "401" -> ReturnResources([a EXCEPT !.rejected = @ \cup {a.auth_token}], <<>>)
      [] o = "error" -> ReturnResources(a, <<>>)
      [] o = "200" /\ n = 0 -> ReturnResources(a, a.all)
      [] o = "200" /\ n > 0 /\ n < PageSize ->
           ReturnResources(a, a.all \o ResourcePage(a.page, n))
      [] OTHER -> [a EXCEPT !.all = @ \o ResourcePage(a.page, n), !.page = @ + 1]

get_page(o, n) ==
    /\ api.pc = "get"
    /\ o \in PageOutcomes
    /\ n \in 0..PageSize
    /\ (o = "401") => (api.auth_token \notin server.valid /\ n = 0)
    /\ (o = "200") => api.auth_token \in server.valid
    /\ (o = "error") => n = 0
    /\ (o = "200" /\ api.page = MaxPages) => n < PageSize
    /\ api' = AfterPage([api EXCEPT !.gets = Append(@, [page |-> api.page, o |-> o, n |-> n]),
                                    !.sent = @ + 1],
                         o, n)
    /\ UNCHANGED <<pool, ruleVars, now, storeVars, collectorVars, engineVars, server>>

\* What the server answers to the request of a method: stat values,
\* alerts, or the created definition.
Answer(op, n) ==
    IF op = "create_alert_definition" THEN TRUE ELSE [k \in 1..n |-> <<op, k>>]

\* The one request of get_metrics, create_alert_definition or
\* get_active_alerts: answered with n items, or failed with a
\* RequestException (a 401 among them), on which the method returns its
\* empty result with auth_token as it was.
domain_request(o, n) ==
    /\ api.pc = "request"
    /\ o \in PageOutcomes
    /\ n \in 0..1
    /\ (o = "401") => (api.auth_token \notin server.valid /\ n = 0)
    /\ (o = "200") => api.auth_token \in server.valid
    /\ (o = "error") => n = 0
    /\ api' = CASE o = "401" ->
                     ReturnResources([api EXCEPT !.rejected = @ \cup {api.auth_token},
                                                 !.sent = @ + 1], EmptyResult(api.op))
                [] o = "error" -> ReturnResources([api EXCEPT !.sent = @ + 1], EmptyResult(api.op))
                [] OTHER -> ReturnResources([api EXCEPT !.sent = @ + 1], Answer(api.op, n))
    /\ UNCHANGED <<pool, ruleVars, now, storeVars, collectorVars, engineVars, server>>

\* The server stops accepting a token it issued (tokens expire).
ExpireToken(t) ==
    /\ t \in server.valid
    /\ server' = [server EXCEPT !.valid = @ \ {t}]
    /\ UNCHANGED <<pool, ruleVars, now, storeVars, collectorVars, engineVars, api>>

\* ------------------------------------------------ bulk_metric_collection
\* The resource ids a caller passes, in lists that may name one twice.
ResourceIds == {"vm-1", "vm-2"}

IdLists == SeqsUpTo(ResourceIds, MaxIds)

\* What get_metrics returns for the resource of future f when its request
\* succeeds: the data points of that request.
MetricData(ids, f) == <<[resource_id |-> ids[f], request |-> f]>>

\* bulk_metric_collection is called: every get_metrics call is submitted to
\* the executor, one future per element of the list.  order is a ghost: the
\* futures in the order as_completed gave them.
BulkMetricCollection(ids) ==
    /\ pool.pc = "idle"
    /\ api.pc = "idle"
    /\ pool' = [pc |-> "running", ids |-> ids,
                fut |-> [f \in 1..Len(ids) |-> [st |-> "queued", out |-> ""]],
                order |-> <<>>, results |-> [id \in {} |-> <<>>]]
    /\ UNCHANGED <<ruleVars, now, storeVars, collectorVars, engineVars, api, server>>

\* The futures a worker thread is running.
Running == {f \in 1..Len(pool.ids) : pool.fut[f].st \in {"authenticate", "test", "request"}}

\* A free worker takes the next work item of the queue and begins
\* get_metrics: "if not self.auth_token".
WorkerStart(f) ==
    /\ pool.pc = "running"
    /\ f \in 1..Len(pool.ids)
    /\ pool.fut[f].st = "queued"
    /\ \A g \in 1..(f - 1) : pool.fut[g].st /= "queued"
    /\ Cardinality(Running) < MaxWorkers
    /\ pool' = [pool EXCEPT !.fut[f].st = IF HasToken(api) THEN "request" ELSE "authenticate"]
    /\ UNCHANGED <<ruleVars, now, storeVars, collectorVars, engineVars, api, server>>

\* authenticate in a worker, up to the assignment of self.auth_token: the
\* token of the answer, None when the answer has none; a RequestException
\* makes authenticate return False and get_metrics return [].
WorkerAuthenticate(f, o) ==
    /\ pool.pc = "running"
    /\ f \in 1..Len(pool.ids)
    /\ pool.fut[f].st = "authenticate"
    /\ o \in AuthenticateOutcomes
    /\ CASE o = "token" ->
              /\ server.issued < MaxTokens
              /\ server' = [issued |-> server.issued + 1,
                            valid |-> server.valid \cup {server.issued + 1}]
              /\ api' = [api EXCEPT !.auth_token = server.issued + 1]
              /\ pool' = [pool EXCEPT !.fut[f].st = "test"]
         [] o = "notoken" ->
              /\ api' = [api EXCEPT !.auth_token = 0]
              /\ pool' = [pool EXCEPT !.fut[f].st = "test"]
              /\ UNCHANGED server
         [] OTHER ->
              /\ pool' = [pool EXCEPT !.fut[f] = [st |-> "done", out |-> "empty"]]
              /\ UNCHANGED <<api, server>>
    /\ UNCHANGED <<ruleVars, now, storeVars, collectorVars, engineVars>>

\* authenticate in a worker, "if self.auth_token:", which reads the
\* attribute again: another worker may have assigned it meanwhile.  With a
\* token the header of the shared session is set and get_metrics goes on to
\* its request; without one get_metrics returns [].
WorkerTest(f) ==
    /\ pool.pc = "running"
    /\ f \in 1..Len(pool.ids)
    /\ pool.fut[f].st = "test"
    /\ IF HasToken(api)
       THEN /\ api' = [api EXCEPT !.header = api.auth_token]
            /\ pool' = [pool EXCEPT !.fut[f].st = "request"]
       ELSE /\ pool' = [pool EXCEPT !.fut[f] = [st |-> "done", out |-> "empty"]]
            /\ UNCHANGED api
    /\ UNCHANGED <<ruleVars, now, storeVars, collectorVars, engineVars, server>>

\* The request of get_metrics in a worker, with the header the session has
\* now.  A 200 gives the data points; a RequestException is caught in
\* get_metrics, which returns []; any other exception (an answer whose
\* values are not of the expected shape) leaves get_metrics and is kept in
\* the future.
WorkerOutcomes == {"200", "401", "error", "raised"}

WorkerRequest(f, o) ==
    /\ pool.pc = "running"
    /\ f \in 1..Len(pool.ids)
    /\ pool.fut[f].st = "request"
    /\ o \in WorkerOutcomes
    /\ (o = "401") => api.header \notin server.valid
    /\ (o \in {"200", "raised"}) => api.header \in server.valid
    /\ pool' = [pool EXCEPT !.fut[f] =
                   [st |-> "done",
                    out |-> CASE o = "200" -> "data" [] o = "raised" -> "raised" [] OTHER -> "empty"]]
    /\ UNCHANGED <<ruleVars, now, storeVars, collectorVars, engineVars, api, server>>

\* Mutant of ResultsAfter: a future that holds an exception gets no entry.
ResultsAfterSkipsRaised(results, ids, fut, f) ==
    IF fut[f].out = "raised" THEN results
    ELSE [id \in DOMAIN results \cup {ids[f]} |->
             IF id = ids[f] THEN IF fut[f].out = "data" THEN MetricData(ids, f) ELSE <<>>
             ELSE results[id]]

\* The body of the as_completed loop for future f: results[resource_id] is
\* what future.result() gave, or [] when it raised.
ResultsAfter(results, ids, fut, f) ==
    [id \in DOMAIN results \cup {ids[f]} |->
        IF id = ids[f] THEN IF fut[f].out = "data" THEN MetricData(ids, f) ELSE <<>>
        ELSE results[id]]

\* as_completed gives a future that is done and was not given before.
Collect(f) ==
    /\ pool.pc = "running"
    /\ f \in 1..Len(pool.ids)
    /\ pool.fut[f].st = "done"
    /\ \A k \in 1..Len(pool.order) : pool.order[k] /= f
    /\ pool' = [pool EXCEPT !.order = Append(@, f),
                            !.results = ResultsAfter(@, pool.ids, pool.fut, f)]
    /\ UNCHANGED <<ruleVars, now, storeVars, collectorVars, engineVars, api, server>>

\* as_completed is exhausted, the with block ends and the method returns
\* results.
BulkReturns ==
    /\ pool.pc = "running"
    /\ Len(pool.order) = Len(pool.ids)
    /\ pool' = [pool EXCEPT !.pc = "returned"]
    /\ UNCHANGED <<ruleVars, now, storeVars, collectorVars, engineVars, api, server>>

\* The state after main has built its objects, with a rule list.
Constructed(rules) ==
    /\ now = 0
    /\ metrics = <<>>
    /\ origin = <<>>
    /\ returned = <<>>
    /\ alerts = <<>>
    /\ wlock = 0
    /\ client = [c \in Clients |-> Idle]
    /\ running = FALSE
    /\ session = 0
    /\ closed = {}
    /\ endpoints \in {MainEndpoints, LabEndpoints}
    /\ loop = [l \in Loops |-> [pc |-> "new", tick |-> 0]]
    /\ task = [l \in Loops |-> [e \in E |-> NoTask]]
    /\ ticks = 0
    /\ stopped = [l \in Loops |-> FALSE]
    /\ engine = [pc |-> "idle"]
    /\ notified = <<>>
    /\ cycles = 0
    /\ alert_rules = rules
    /\ checked = <<>>
    /\ api = AriaOperationsAPI
    /\ server = [issued |-> 0, valid |-> {}]
    /\ pool = [pc |-> "idle"]

Init == Constructed(AlertRules)

\* The collector as the start_collection calls of L drive it.
CollectorStep(L) ==
    \/ \E l \in L : StartCollection(l)
    \/ \E l \in L : StartTick(l)
    \/ \E l \in L : ExitLoop(l)
    \/ \E l \in L, e \in E : BeginOperations(l, e)
    \/ \E l \in L, e \in E : Authenticate(l, e)
    \/ \E l \in L, e \in E : CollectOperations(l, e)
    \/ \E l \in L, e \in E : CollectSimulated(l, e)
    \/ \E l \in L : FinishTick(l)
    \/ \E l \in L : Wake(l)
    \/ StopCollection

\* One start_collection call, as main() makes it.
CollectorNext == CollectorStep({1})

SpecCollector == Init /\ [][CollectorNext]_vars

\* start_collection called again on the same collector.
RestartNext == CollectorStep(Loops)

RestartInit == Init /\ endpoints = MainEndpoints

SpecRestart == RestartInit /\ [][RestartNext]_vars

\* The event loop runs every coroutine that can run, and every request ends.
CollectorProgress(l) ==
    /\ WF_vars(StartTick(l)) /\ WF_vars(ExitLoop(l))
    /\ WF_vars(FinishTick(l)) /\ WF_vars(Wake(l))
    /\ \A e \in 1..Len(LabEndpoints) :
          /\ WF_vars(e \in E /\ BeginOperations(l, e))
          /\ WF_vars(e \in E /\ Authenticate(l, e))
          /\ WF_vars(e \in E /\ CollectOperations(l, e))
          /\ WF_vars(e \in E /\ CollectSimulated(l, e))

FairCollector == SpecCollector /\ CollectorProgress(1)

StoreInit == Init /\ endpoints = MainEndpoints

\* Threads that store and read at once: the collector's thread, and the
\* alert thread and the dashboard with get_metrics(hours_back=1).
StoreNext ==
    \/ \E c \in Clients, m \in SampleInputs : BeginStore(c, m)
    \/ \E c \in Clients : StoreLocked(c)
    \/ \E c \in Clients : CommitStore(c)
    \/ \E c \in Clients, rev \in BOOLEAN : Query(c, <<>>, <<>>, LookbackHours, rev)
    \/ \E c \in Clients : Return(c)
    \/ AdvanceClock

SpecStore == StoreInit /\ [][StoreNext]_vars

\* The arguments get_metrics is called with.
EndpointFilters == {<<>>, <<"">>, <<"Aria Operations">>, <<"Aria Automation">>}
NameFilters == {<<>>, <<CpuUsageVm1>>, <<CpuUsage>>, <<MemoryUsage>>}
HoursBackInputs == {0, 1}

\* One thread that stores samples in any order of their timestamps and
\* queries with every combination of arguments.
QueryNext ==
    \/ \E m \in SampleInputs : BeginStore(1, m)
    \/ CommitStore(1)
    \/ \E ef \in EndpointFilters, nf \in NameFilters, h \in HoursBackInputs, rev \in BOOLEAN :
          Query(1, ef, nf, h, rev)
    \/ Return(1)
    \/ AdvanceClock

SpecQuery == StoreInit /\ [][QueryNext]_vars

\* The alert thread beside a thread that stores samples.
AlertNext ==
    \/ \E m \in AlertSamples : StoreMetric(m)
    \/ \E rev \in BOOLEAN : EvaluateAlerts(rev)
    \/ NextPair
    \/ StoreAlert
    \/ \E delivered \in BOOLEAN : SendEmailAlert(delivered)
    \/ EvaluateReturns
    \/ AdvanceClock

SpecAlert == StoreInit /\ [][AlertNext]_vars

\* check_alert_condition on its own, with every combination of arguments.
ConditionNext ==
    \E condition \in Conditions, threshold \in Thresholds, offset \in Offsets :
        CheckCondition(condition, threshold, offset)

SpecCondition == StoreInit /\ [][ConditionNext]_vars

\* The alert thread while rule objects are edited.
\* The samples stored meanwhile: one above the thresholds of the cpu rules,
\* one within the tolerance of the memory rules.
EditSamples ==
    { m \in AlertSamples : \/ m.metric_name = CpuUsageVm1 /\ m.value = 90000
                           \/ m.metric_name = MemoryUsage }

RulesNext ==
    \/ \E m \in EditSamples : StoreMetric(m)
    \/ \E rev \in BOOLEAN : EvaluateAlerts(rev)
    \/ NextPair
    \/ StoreAlert
    \/ \E delivered \in BOOLEAN : SendEmailAlert(delivered)
    \/ EvaluateReturns
    \/ \E r \in Rules : \E new \in RuleEdits(alert_rules[r]) : EditRule(r, new)

SpecRules == StoreInit /\ [][RulesNext]_vars

\* Half an hour passes while the alert thread runs.  run_alerts sleeps 60
\* seconds between two calls, so a call began within the instant that ends,
\* unless the thread has ended.
HalfHourPasses ==
    /\ \/ engine.pc = "raised"
       \/ engine.pc /= "idle" /\ engine.at = now
    /\ AdvanceClock

\* The alert thread as main starts it, beside a thread that stores samples;
\* reads and writes of the store may fail.
RunAlertsNext ==
    \/ \E m \in EditSamples : StoreMetric(m)
    \/ \E rev \in BOOLEAN : RunAlerts(rev)
    \/ GetMetricsRaises
    \/ NextPair
    \/ StoreAlert
    \/ \E delivered \in BOOLEAN : SendEmailAlert(delivered)
    \/ EvaluateReturns
    \/ HalfHourPasses

SpecRunAlerts == StoreInit /\ [][RunAlertsNext]_vars

\* The alert thread is scheduled whenever it can run, and its sleep ends.
AlertThreadProgress ==
    /\ WF_vars(\E rev \in BOOLEAN : RunAlerts(rev))
    /\ WF_vars(NextPair)
    /\ WF_vars(StoreAlert)
    /\ WF_vars(\E delivered \in BOOLEAN : SendEmailAlert(delivered))
    /\ WF_vars(EvaluateReturns)

FairRunAlerts == SpecRunAlerts /\ AlertThreadProgress

\* The collector's loop and the alert thread side by side on one store, as
\* main starts them.  The values the collector stores are the constants of
\* its collect_* coroutines, all below the thresholds of main's rules; the
\* rule list here has the warning threshold at 60, below the 65.5 that
\* collect_operations_metrics stores, so that the engine notifies too.
\* Rows of one timestamp come in the order of their insertion.
PipelineRules == [AlertRules EXCEPT ![1].threshold = 60000]

PipelineInit == Constructed(PipelineRules) /\ endpoints = MainEndpoints

PipelineNext ==
    \/ CollectorStep({1})
    \/ EvaluateAlerts(FALSE)
    \/ NextPair
    \/ StoreAlert
    \/ \E delivered \in BOOLEAN : SendEmailAlert(delivered)
    \/ EvaluateReturns

SpecPipeline == PipelineInit /\ [][PipelineNext]_vars

\* The API client: calls of get_resources, one after another, against a
\* server whose tokens expire.
ApiNext ==
    \/ GetResources
    \/ GetMetrics
    \/ CreateAlertDefinition
    \/ GetActiveAlerts
    \/ CallAuthenticate
    \/ \E o \in AuthenticateOutcomes : authenticate(o)
    \/ \E o \in PageOutcomes, n \in 0..PageSize : get_page(o, n)
    \/ \E o \in PageOutcomes, n \in 0..1 : domain_request(o, n)
    \/ \E t \in Tokens : ExpireToken(t)

SpecApi == StoreInit /\ [][ApiNext]_vars

\* One bulk_metric_collection call on a client that may have authenticated
\* before, against a server whose tokens expire.
BulkNext ==
    \/ pool.pc = "idle" /\ CallAuthenticate
    \/ \E o \in AuthenticateOutcomes : authenticate(o)
    \/ \E ids \in IdLists : BulkMetricCollection(ids)
    \/ \E f \in 1..MaxIds : WorkerStart(f)
    \/ \E f \in 1..MaxIds, o \in AuthenticateOutcomes : WorkerAuthenticate(f, o)
    \/ \E f \in 1..MaxIds : WorkerTest(f)
    \/ \E f \in 1..MaxIds, o \in WorkerOutcomes : WorkerRequest(f, o)
    \/ \E f \in 1..MaxIds : Collect(f)
    \/ BulkReturns
    \/ \E t \in Tokens : ExpireToken(t)

SpecBulk == StoreInit /\ [][BulkNext]_vars

\* ------------------------------------------------------ collector claims
\* The rows of the table that the fetch tagged `tag` stored, in table order.
RECURSIVE StoredFrom(_, _)
StoredFrom(i, tag) ==
    IF i > Len(metrics) THEN <<>>
    ELSE (IF origin[i] = tag THEN <<metrics[i]>> ELSE <<>>) \o StoredFrom(i + 1, tag)

StoredBy(l, e) == StoredFrom(1, Tag(l, e))

RowsOfBatch(batch) == [i \in 1..Len(batch) |-> RowOf(batch[i])]

\* gather has every result of the tick of loop l.
TickComplete(l) == loop[l].pc = "polling" /\ GatherReturns(task[l])

\* C1: a failed fetch leaves the tick and the other fetches alone.  A step
\* in which the fetch of one endpoint fails changes neither the loop nor the
\* coroutine of any other endpoint nor a stored row; when every fetch of a
\* tick has finished, every enabled endpoint has an outcome, the batch of
\* each fetch that succeeded is in the store, whole and in order, and
\* collect_all_metrics can return.
FailureIsolated ==
    \A l \in Loops, e \in E :
        (task[l][e].st /= "failed" /\ task'[l][e].st = "failed")
            => /\ loop' = loop
               /\ \A d \in E \ {e} : task'[l][d] = task[l][d]
               /\ SubSeq(metrics', 1, Len(metrics)) = metrics

SuccessfulStored(l) ==
    \A e \in E :
        /\ endpoints[e].enabled => task[l][e].st \in {"ok", "failed"}
        /\ task[l][e].st = "ok" => StoredBy(l, e) = RowsOfBatch(task[l][e].batch)

C1_PartialFailure ==
    /\ [][FailureIsolated]_vars
    /\ [](\A l \in Loops : TickComplete(l) => SuccessfulStored(l) /\ ENABLED FinishTick(l))

\* C1 witness: a complete tick in which the operations fetch failed and the
\* two other enabled endpoints have their two samples each in the store.
C1_Witness ==
    /\ endpoints = LabEndpoints
    /\ TickComplete(1)
    /\ task[1][1].st = "failed"
    /\ \A e \in {2, 3} : task[1][e].st = "ok" /\ Len(StoredBy(1, e)) = 2

\* C2 as claimed: the batch of a finished fetch is in the store as a whole
\* or not at all, and not at all when the fetch failed.
C2_AllOrNothing ==
    \A l \in Loops, e \in E :
        task[l][e].st \in {"ok", "failed"} =>
            /\ StoredBy(l, e) \in {<<>>, RowsOfBatch(task[l][e].batch)}
            /\ task[l][e].st = "failed" => StoredBy(l, e) = <<>>

\* C2 amended: every sample is stored by its own store_metric call, so what
\* a fetch has in the store is the start of its batch, in order: the whole
\* batch when it succeeded, and when it failed the samples whose
\* store_metric call returned before the failure, which stay stored.
C2_PrefixStored ==
    \A l \in Loops, e \in E :
        task[l][e].st \in {"ok", "failed"} =>
            LET have == StoredBy(l, e)
                rows == RowsOfBatch(task[l][e].batch)
            IN  /\ Len(have) <= Len(rows)
                /\ have = SubSeq(rows, 1, Len(have))
                /\ task[l][e].st = "ok" => have = rows
                /\ task[l][e].why = "store" => Len(have) < Len(rows)

\* C2 witness: a fetch that failed in its second store_metric call, with its
\* first sample in the store.
C2_Witness ==
    \E e \in E :
        /\ task[1][e].st = "failed" /\ task[1][e].why = "store"
        /\ Len(StoredBy(1, e)) = 1 /\ Len(task[1][e].batch) = 2

\* C3 as claimed: a loop on which stop_collection was called starts no
\* further tick.
C3_NoTickAfterStop ==
    [][\A l \in Loops : stopped[l] => ~(loop[l].pc = "check" /\ loop'[l].pc = "polling")]_vars

\* C32 as claimed: at any time at most one loop of the collector is in a
\* tick, and a loop on which stop_collection was called enters no tick again.
C32_AtMostOneLoop ==
    /\ [](Cardinality({l \in Loops : loop[l].pc = "polling"}) <= 1)
    /\ [][\A l \in Loops : (stopped[l] /\ loop'[l].pc = "polling") => loop[l].pc = "polling"]_vars

\* C33 as claimed: a start_collection call that has exited has closed the
\* session it opened.
C33_ExitClosesOwnSession == \A l \in Loops : loop[l].pc = "done" => l \in closed

\* C4: stop_collection only clears the flag: it changes no coroutine, no
\* loop and no row; and a loop whose flag was cleared during its tick leaves
\* the tick only when every fetch has finished and the batch of each fetch
\* that succeeded is in the store.
StopOnlyClearsFlag ==
    (running /\ ~running') => (task' = task /\ loop' = loop /\ metrics' = metrics)

TickEndsWhole ==
    \A l \in Loops :
        (loop[l].pc = "polling" /\ ~running /\ loop'[l].pc /= "polling")
            => GatherReturns(task[l]) /\ SuccessfulStored(l)

C4_TickNotInterrupted == [][StopOnlyClearsFlag /\ TickEndsWhole]_vars

\* C4 witness: stop_collection came while the operations fetch was awaiting
\* its answer, and the tick is complete with that fetch successful and stored.
C4_Witness ==
    /\ TickComplete(1) /\ ~running /\ stopped[1]
    /\ task[1][1].st = "ok" /\ Len(StoredBy(1, 1)) = 2
    /\ \A e \in E : endpoints[e].enabled => task[1][e].st = "ok"

\* C5: a request that gets no answer ends in the session's timeout and the
\* fetch counts as failed, so every tick that started gets complete, with the
\* batches of its successful fetches stored, and the loop comes back to its
\* test of the flag, where the next tick starts.
C5_TickCompletes ==
    \A l \in {1} :
        /\ (loop[l].pc = "polling") ~> (TickComplete(l) /\ SuccessfulStored(l))
        /\ (loop[l].pc = "polling") ~> (loop[l].pc = "check")

\* C5 witness: a complete tick whose operations fetch timed out while the
\* other endpoints' samples are stored.
C5_Witness ==
    /\ endpoints = LabEndpoints
    /\ TickComplete(1)
    /\ task[1][1].st = "failed" /\ task[1][1].why = "timeout"
    /\ \A e \in {2, 3} : task[1][e].st = "ok" /\ Len(StoredBy(1, e)) = 2

\* A store_metric call raised in a fetch of the tick of loop l.
StoreFailed(l) ==
    loop[l].pc = "polling" /\ \E e \in E : task[l][e].st = "failed" /\ task[l][e].why = "store"

\* The rows endpoint e stored in tick t of loop l.
RowsOfTick(l, t, e) == {i \in 1..Len(origin) : origin[i] = <<l, t, e>>}

\* C16: a storage failure never ends the polling loop.  The step in which
\* store_metric raises leaves the loop where it is, the loop ends only once
\* the flag is cleared, and after a tick in which store_metric raised the
\* next tick starts unless stop_collection was called.
C16_StoreFailureKeepsLoop ==
    /\ [][\A l \in Loops :
             /\ (~StoreFailed(l) /\ StoreFailed(l)') => loop' = loop
             /\ (loop[l].pc /= "done" /\ loop'[l].pc = "done") => ~running]_vars
    /\ \A k \in 1..(MaxTicks - 1) :
          (StoreFailed(1) /\ loop[1].tick = k)
              ~> ((loop[1].pc = "polling" /\ loop[1].tick = k + 1) \/ ~running)

\* C16 witness: the second tick is running after a first tick in which the
\* automation fetch stored one of its two samples and then failed.
C16_Witness ==
    /\ loop[1].pc = "polling" /\ loop[1].tick = 2 /\ running
    /\ endpoints[2].type = "automation"
    /\ Cardinality(RowsOfTick(1, 1, 2)) = 1

\* The operations fetch of e in the tick of loop l got no token.
TokenFailed(l, e) ==
    /\ endpoints[e].type = "operations"
    /\ task[l][e].st = "failed" /\ ~task[l][e].token

\* C17: a token failure degrades to no samples.  Only a fetch that holds a
\* token sends the resource request; the step in which authentication fails
\* ends that fetch and touches neither the store, the loop nor another
\* fetch; a fetch without a token has no sample in the store; and the tick
\* it is part of completes and can return.
C17_TokenFailure ==
    /\ [][\A l \in Loops, e \in E :
             (task[l][e].st = "auth" /\ task'[l][e].st /= "auth" /\ ~task'[l][e].token) =>
                 /\ task'[l][e].st = "failed"
                 /\ metrics' = metrics
                 /\ loop' = loop
                 /\ \A d \in E \ {e} : task'[l][d] = task[l][d]]_vars
    /\ [](\A l \in Loops, e \in E :
             /\ task[l][e].st = "get" => task[l][e].token
             /\ (endpoints[e].type = "operations" /\ ~task[l][e].token
                    /\ loop[l].pc = "polling") => StoredBy(l, e) = <<>>
             /\ (TokenFailed(l, e) /\ TickComplete(l)) =>
                    SuccessfulStored(l) /\ ENABLED FinishTick(l))

\* C17 witness: a complete tick in which authentication was refused, the
\* operations endpoint has no sample and the automation endpoint has two.
C17_Witness ==
    /\ TickComplete(1)
    /\ TokenFailed(1, 1) /\ task[1][1].why = "auth"
    /\ StoredBy(1, 1) = <<>>
    /\ task[1][2].st = "ok" /\ Len(StoredBy(1, 2)) = 2

\* The metric names the adapter of an endpoint type stores.
AdapterNames(type) ==
    CASE type = "operations" ->
            {ClusterHealth(n) : n \in ResourceKinds} \cup {ClusterCpuUsage(n) : n \in ResourceKinds}
      [] type = "automation" -> {DeploymentSuccessRate, ActiveDeployments}
      [] type = "network-insight" -> {NetworkFlows, NetworkLatency}
      [] OTHER -> {}

\* C19: one fetch per enabled endpoint and tick, by the adapter of its type.
\* When a tick is complete every enabled endpoint has been fetched; a fetch
\* that has started or finished is not started again in its tick; what an
\* endpoint has in the store from a tick are samples of its own adapter, no
\* more than one batch; a disabled endpoint has no fetch and no row.
C19_FetchedOnce ==
    /\ [][\A l \in Loops, e \in E :
             (loop[l].pc = "polling" /\ loop'[l].pc = "polling") =>
                 /\ task[l][e].st /= "new" => task'[l][e].st /= "new"
                 /\ task[l][e].st \in Finished => task'[l][e] = task[l][e]]_vars
    /\ [](\A l \in Loops, e \in E :
             /\ (TickComplete(l) /\ endpoints[e].enabled) => task[l][e].st \in {"ok", "failed"}
             /\ ~endpoints[e].enabled =>
                    /\ task[l][e].st = "none"
                    /\ \A i \in 1..Len(origin) : origin[i][3] /= e
             /\ \A t \in 1..MaxTicks :
                    /\ Cardinality(RowsOfTick(l, t, e)) <= 2 * MaxResources
                    /\ \A i \in RowsOfTick(l, t, e) :
                          /\ metrics[i].endpoint = endpoints[e].name
                          /\ metrics[i].metric_name \in AdapterNames(endpoints[e].type))

\* C19 witness: a complete tick over the list with a disabled endpoint: the
\* three enabled endpoints are fetched, one of them failed, and the disabled
\* one has no fetch.
C19_Witness ==
    /\ endpoints = LabEndpoints
    /\ TickComplete(1)
    /\ task[1][1].st = "failed"
    /\ task[1][2].st = "ok" /\ task[1][3].st = "ok"
    /\ task[1][4].st = "none"
    /\ Len(metrics) = 4

\* The fetches of loop l that have started and not finished.
InFlight(l) == {e \in E : task[l][e].st \notin {"none", "ok", "failed"}}

\* Every fetch of the tick of loop l has finished, each enabled endpoint
\* with an outcome, and the batch of each successful one is in the store.
AllWorkStored(l) ==
    /\ InFlight(l) = {}
    /\ \A e \in E :
          /\ endpoints[e].enabled => task[l][e].st \in {"ok", "failed"}
          /\ task[l][e].st = "ok" =>
                StoredFrom(1, <<l, loop[l].tick, e>>) = RowsOfBatch(task[l][e].batch)

\* C26.  The ticks of one loop never overlap, and a tick returns only when
\* all its work is stored.  A loop leaves a tick only with every fetch
\* finished and every sample of each successful fetch in the store, and
\* goes to sleep; it enters a tick only from the test of its flag, with no
\* fetch left over, and the tick number goes up by one there and nowhere
\* else; outside a tick no fetch of the loop is in flight; and in the table
\* the rows of an earlier tick of a loop come before those of a later one.
C26_TicksInSequence ==
    /\ [][\A l \in Loops :
             /\ (loop[l].pc = "polling" /\ loop'[l].pc /= "polling") =>
                   AllWorkStored(l) /\ loop'[l].pc = "sleep"
             /\ (loop[l].pc /= "polling" /\ loop'[l].pc = "polling") =>
                   loop[l].pc = "check" /\ loop'[l].tick = loop[l].tick + 1
             /\ loop'[l].tick /= loop[l].tick =>
                   loop[l].pc = "check" /\ loop'[l].pc = "polling"
             /\ loop'[l].pc = "polling" => loop'[l].tick >= 1]_vars
    /\ [](\A l \in Loops : loop[l].pc /= "polling" => InFlight(l) = {})
    /\ [](\A i, j \in 1..Len(origin) :
             (i < j /\ origin[i][1] = origin[j][1]) => origin[i][2] <= origin[j][2])

\* The second tick of the loop has a fetch in flight while the rows of the
\* whole first tick and a row of the second are in the table.
C26_Witness ==
    /\ loop[1].pc = "polling" /\ loop[1].tick = 2
    /\ InFlight(1) /= {}
    /\ \A e \in E : Cardinality(RowsOfTick(1, 1, e)) = 2
    /\ \E e \in E : RowsOfTick(1, 2, e) /= {}

\* ---------------------------------------------------------- store claims
Count(x, s) == Cardinality({i \in 1..Len(s) : s[i] = x})

\* An endpoint or metric_name counts as given when it is a string that is
\* not empty: the code tests "if endpoint:", which "" fails like None.
IsGiven(opt) == opt /= <<>> /\ Len(opt[1]) > 0

\* The sample's time lies in the window of a query made at instant `at`.
InWindow(m, hours_back, at) == m.timestamp >= at - 2 * hours_back

\* The sample satisfies the filter of a query.
Passes(m, endpoint, metric_name, hours_back, at) ==
    /\ InWindow(m, hours_back, at)
    /\ IsGiven(endpoint) => m.endpoint = endpoint[1]
    /\ IsGiven(metric_name) => m.metric_name = metric_name[1]

Got(c) == client[c].pc = "got"

\* The samples whose store_metric call had returned when the query of
\* client c ran.
StoredBefore(c) == SubSeq(returned, 1, client[c].seen)

PassedTo(c, m) ==
    Passes(m, client[c].endpoint, client[c].metric_name, client[c].hours_back, client[c].at)

\* The instant a timestamp column holds.
InstantOf(text) == CHOOSE n \in Instants : AdaptDatetime(n) = text

\* C6: read after write, exactly once.  A get_metrics call whose window and
\* filters include a sample whose store_metric call returned before it
\* gives that sample once per such call, whatever else was appended.
C6_ReadAfterWrite ==
    \A c \in Clients : Got(c) =>
        \A i \in 1..Len(StoredBefore(c)) :
            PassedTo(c, returned[i]) =>
                Count(RowOf(returned[i]), client[c].result) = Count(returned[i], StoredBefore(c))

\* C6 witness: a sample stored first, two other samples appended after it,
\* and a later query by its endpoint and name that gives it once.
C6_Witness ==
    /\ Got(1)
    /\ client[1].seen = 3
    /\ Count(returned[1], returned) = 1
    /\ IsGiven(client[1].endpoint) /\ IsGiven(client[1].metric_name)
    /\ PassedTo(1, returned[1])
    /\ Count(RowOf(returned[1]), client[1].result) = 1

\* C7: concurrent appends lose and duplicate nothing.  The table holds one
\* whole row for each store_metric call that returned and nothing else, and
\* a get_metrics call that ran beside a store gave whole rows of committed
\* samples only.
C7_AppendsAtomic ==
    /\ Len(metrics) = Len(returned)
    /\ \A i \in 1..Len(metrics) : metrics[i] = RowOf(returned[i])
    /\ \A c \in Clients : Got(c) =>
          client[c].result = get_metrics(RowsOfBatch(StoredBefore(c)), <<>>, <<>>,
                                         client[c].hours_back, client[c].at, client[c].rev)

\* C7 witness: a query that ran while another thread held a sample of its
\* window in an open transaction, and gave the one committed sample; the
\* other thread's call returned afterwards.
C7_Witness ==
    /\ Got(1) /\ client[1].seen = 1 /\ client[1].beside = 2
    /\ Len(client[1].result) = 1
    /\ client[2].pc = "idle"
    /\ Len(returned) = 2
    /\ InWindow(returned[2], client[1].hours_back, client[1].at)

\* C8: get_metrics gives exactly the stored samples that satisfy its
\* filter, newest first, in whatever order they were appended; an append
\* older than an earlier one is stored like any other.
C8_QueryExact ==
    /\ metrics = RowsOfBatch(returned)
    /\ \A c \in Clients : Got(c) =>
          LET result == client[c].result
              passing == SelectSeq(StoredBefore(c), LAMBDA m : PassedTo(c, m))
          IN  /\ Len(result) = Len(passing)
              /\ \A i \in 1..Len(passing) :
                    Count(RowOf(passing[i]), result) = Count(passing[i], passing)
              /\ \A i, j \in 1..Len(result) :
                    i < j => InstantOf(result[i].timestamp) >= InstantOf(result[j].timestamp)

\* C8 witness: samples appended newest first, the oldest of them outside
\* the window, and a query that gives the two others in the order of their
\* timestamps.
C8_Witness ==
    /\ Got(1) /\ client[1].seen = 3
    /\ returned[1].timestamp > returned[2].timestamp
    /\ returned[2].timestamp > returned[3].timestamp
    /\ ~PassedTo(1, returned[3])
    /\ client[1].result = <<RowOf(returned[1]), RowOf(returned[2])>>

\* ----------------------------------------------------------- alert claims
\* The pattern occurs in the name as a run of consecutive tokens.
IsSubstring(pattern, name) ==
    \E i \in 1..(Len(name) + 1), j \in 0..Len(name) : SubSeq(name, i, j) = pattern

\* The value satisfies the rule's condition: above, below, or within 0.01
\* of the threshold.
ConditionHolds(rule, value) ==
    \/ rule.condition = "greater_than" /\ value > rule.threshold
    \/ rule.condition = "less_than" /\ value < rule.threshold
    \/ rule.condition = "equals" /\ value - rule.threshold \in -9..9

\* The pair of rule p[1] and row p[2] of the snapshot is a match.
Matches(p) ==
    /\ AlertRules[p[1]].enabled
    /\ IsSubstring(AlertRules[p[1]].metric_pattern, engine.snapshot[p[2]].metric_name)
    /\ ConditionHolds(AlertRules[p[1]], engine.snapshot[p[2]].value)

\* The alert rows and the notifications of the call in progress or just over.
Created == SubSeq(alerts, engine.base + 1, Len(alerts))
Sent == SubSeq(notified, engine.sent + 1, Len(notified))

Severe(record) == record.severity \in {"warning", "critical"}

\* C9: one evaluate_alerts call creates one AlertRecord for every pair of
\* an enabled rule and a row of its snapshot where the name contains the
\* pattern and the value satisfies the condition, and none for another
\* pair.  While the call runs, and when store_alert raised, it has created
\* at most one per matching pair; when it has returned, exactly one.  A
\* cpu_usage_vm1 row of 90 gives one warning record of "High CPU Usage" and
\* one notification, a row of 70 gives neither.
C9_OneRecordPerMatch ==
    engine.pc /= "idle" =>
        LET snap == engine.snapshot
            made == engine.made
            Pairs == Rules \X (1..Len(snap))
            OfRow(i) == {k \in 1..Len(made) : made[k][2] = i}
        IN  /\ Len(Created) = Len(made)
            /\ \A k \in 1..Len(made) :
                  /\ made[k] \in Pairs
                  /\ Matches(made[k])
                  /\ Created[k].rule_name = AlertRules[made[k][1]].name
                  /\ Created[k].threshold = AlertRules[made[k][1]].threshold
                  /\ Created[k].severity = AlertRules[made[k][1]].severity
                  /\ Created[k].endpoint = snap[made[k][2]].endpoint
                  /\ Created[k].metric_name = snap[made[k][2]].metric_name
                  /\ Created[k].value = snap[made[k][2]].value
            /\ \A p \in Pairs : Count(p, made) <= 1
            /\ engine.pc = "returned" =>
                  /\ \A p \in Pairs : Matches(p) => Count(p, made) = 1
                  /\ \A i \in 1..Len(snap) :
                        /\ (snap[i].metric_name = CpuUsageVm1 /\ snap[i].value = 90000) =>
                              /\ Cardinality(OfRow(i)) = 1
                              /\ \A k \in OfRow(i) :
                                    /\ Created[k].rule_name = "High CPU Usage"
                                    /\ Created[k].severity = "warning"
                              /\ Cardinality({k \in 1..Len(Sent) : Sent[k].pair[2] = i}) = 1
                        /\ (snap[i].metric_name = CpuUsageVm1 /\ snap[i].value = 70000) =>
                              /\ OfRow(i) = {}
                              /\ {k \in 1..Len(Sent) : Sent[k].pair[2] = i} = {}

\* C9 witness: a call that returned on a snapshot holding cpu_usage_vm1 at
\* 90 and at 70, with one record and one notification.
C9_Witness ==
    /\ engine.pc = "returned"
    /\ Len(engine.snapshot) = 2
    /\ \E i, j \in 1..2 :
          /\ engine.snapshot[i].metric_name = CpuUsageVm1 /\ engine.snapshot[i].value = 90000
          /\ engine.snapshot[j].metric_name = CpuUsageVm1 /\ engine.snapshot[j].value = 70000
    /\ Len(Created) = 1 /\ Created[1].severity = "warning"
    /\ Len(Sent) = 1

\* C10: a notification is submitted for a match exactly when the rule's
\* severity is warning or critical.  The attempts are, in order, those for
\* the warning and critical records; between two trigger_alert calls there
\* are as many attempts as such records (one is pending between store_alert
\* and send_email_alert), and no attempt is for an info rule.
C10_NotifyIffSevere ==
    LET severe == SelectSeq(alerts, Severe)
    IN  /\ Len(notified) = Len(severe) - (IF engine.pc = "stored" THEN 1 ELSE 0)
        /\ \A k \in 1..Len(notified) :
              /\ notified[k].severity \in {"warning", "critical"}
              /\ notified[k].rule_name = severe[k].rule_name

\* C10 witness: after two cycles the table holds an info record, a warning
\* record and a critical record, with a notification for each of the two
\* others and none for the info record.
C10_Witness ==
    /\ cycles = 2 /\ engine.pc = "returned"
    /\ \E k \in 1..Len(alerts) : alerts[k].severity = "info"
    /\ \E k \in 1..Len(alerts) : alerts[k].severity = "critical"
    /\ \E k \in 1..Len(Created) : Created[k].severity = "info"
    /\ Len(notified) = Len(SelectSeq(alerts, Severe))
    /\ Len(notified) >= 2

\* The metric streams of the snapshot, and the rules that notify.
StreamOf(row) == <<row.endpoint, row.metric_name>>
Streams == {StreamOf(engine.snapshot[i]) : i \in 1..Len(engine.snapshot)}
SevereRules == {r \in Rules : AlertRules[r].enabled /\ Severe(AlertRules[r])}

\* The rows of stream s in the snapshot that rule r matches, and the alert
\* rows and notifications of the call for rule r and stream s.
RowsMatching(r, s) ==
    {i \in 1..Len(engine.snapshot) : StreamOf(engine.snapshot[i]) = s /\ Matches(<<r, i>>)}
RecordsFor(r, s) ==
    {k \in 1..Len(Created) : Created[k].rule_name = AlertRules[r].name /\ StreamOf(Created[k]) = s}
NoticesFor(r, s) ==
    {k \in 1..Len(Sent) : /\ Sent[k].rule_name = AlertRules[r].name
                          /\ StreamOf(engine.snapshot[Sent[k].pair[2]]) = s}

\* C11 as claimed: a cycle gives one AlertRecord and one notification per
\* warning or critical rule and stream that satisfies it, however many
\* samples of the stream the snapshot holds.
C11_OnePerStream ==
    engine.pc = "returned" =>
        \A r \in SevereRules, s \in Streams :
            RowsMatching(r, s) /= {} =>
                Cardinality(RecordsFor(r, s)) = 1 /\ Cardinality(NoticesFor(r, s)) = 1

\* C11 amended: no deduplication, one per sample and cycle.  In every
\* cycle, first or later, a warning or critical rule gets one AlertRecord
\* and one notification for each sample of the stream in the snapshot that
\* satisfies it: as many as there are such samples when the call has
\* returned, and no more than that while it runs or when it raised.
C11_OnePerSample ==
    engine.pc /= "idle" =>
        \A r \in SevereRules, s \in Streams :
            /\ Cardinality(RecordsFor(r, s)) <= Cardinality(RowsMatching(r, s))
            /\ Cardinality(NoticesFor(r, s)) <= Cardinality(RecordsFor(r, s))
            /\ engine.pc = "returned" =>
                  /\ Cardinality(RecordsFor(r, s)) = Cardinality(RowsMatching(r, s))
                  /\ Cardinality(NoticesFor(r, s)) = Cardinality(RecordsFor(r, s))

\* C11 witness: a second cycle over two samples of one stream that both
\* satisfy "High CPU Usage", with two records and two notifications of that
\* rule in this cycle, after a first cycle that recorded as well.
C11_Witness ==
    /\ cycles = 2 /\ engine.pc = "returned"
    /\ engine.base > 0
    /\ \E s \in Streams :
          /\ Cardinality(RowsMatching(1, s)) = 2
          /\ Cardinality(RecordsFor(1, s)) = 2
          /\ Cardinality(NoticesFor(1, s)) = 2

\* No two stored samples agree on endpoint, name and value, so that equal
\* alert rows are rows for the same sample.
SamplesTellApart ==
    \A i, j \in 1..Len(returned) :
        (/\ returned[i].endpoint = returned[j].endpoint
         /\ returned[i].metric_name = returned[j].metric_name
         /\ returned[i].value = returned[j].value) => i = j

\* C12 as claimed: over the cycles, a stored sample that matches a rule
\* gets at most one AlertRecord and at most one notification.
C12_AtMostOnce ==
    SamplesTellApart =>
        /\ \A j, k \in 1..Len(alerts) : alerts[j] = alerts[k] => j = k
        /\ Len(notified) <= Cardinality({alerts[k] : k \in 1..Len(alerts)})

\* The loops of the call stand at a pair that is a match.
AtMatch ==
    /\ engine.pc = "eval"
    /\ engine.r \in Rules
    /\ engine.i <= Len(engine.snapshot)
    /\ Matches(<<engine.r, engine.i>>)

\* The alert row of the pair the loops stand at.
RecordAtPair ==
    [rule_name |-> AlertRules[engine.r].name,
     endpoint |-> engine.snapshot[engine.i].endpoint,
     metric_name |-> engine.snapshot[engine.i].metric_name,
     value |-> engine.snapshot[engine.i].value,
     threshold |-> AlertRules[engine.r].threshold,
     severity |-> AlertRules[engine.r].severity,
     acknowledged |-> FALSE]

\* C12 amended: repeat triggers are not deduplicated.  Whenever the loops of
\* a cycle leave a matching pair without an exception, the pair's AlertRecord
\* has been appended, whether or not the table held an equal one from an
\* earlier cycle, and for a warning or critical rule the step that follows
\* is one more notification.
C12_RepeatsRecorded ==
    [][/\ (AtMatch /\ engine' /= engine /\ engine'.pc /= "raised") =>
             /\ alerts' = Append(alerts, RecordAtPair)
             /\ engine'.pc = IF Severe(AlertRules[engine.r]) THEN "stored" ELSE "eval"
       /\ (engine.pc = "stored" /\ engine' /= engine) =>
             Len(notified') = Len(notified) + 1]_vars

\* C12 witness: one stored sample, two cycles, and the table holds the
\* sample's alert twice, with two notifications.
C12_Witness ==
    /\ cycles = 2 /\ engine.pc = "returned"
    /\ Len(metrics) = 1
    /\ Len(alerts) = 2 /\ alerts[1] = alerts[2]
    /\ Len(notified) = 2

\* The pairs of the call, and the order the loops visit them in.
Pairs == Rules \X (1..Len(engine.snapshot))
Before(p, q) == p[1] < q[1] \/ (p[1] = q[1] /\ p[2] < q[2])

\* The alert row of pair p of the call.
RecordOf(p) ==
    [rule_name |-> AlertRules[p[1]].name,
     endpoint |-> engine.snapshot[p[2]].endpoint,
     metric_name |-> engine.snapshot[p[2]].metric_name,
     value |-> engine.snapshot[p[2]].value,
     threshold |-> AlertRules[p[1]].threshold,
     severity |-> AlertRules[p[1]].severity,
     acknowledged |-> FALSE]

\* The call has stored the alert row of pair p.
Recorded(p) == \E k \in 1..Len(engine.made) : engine.made[k] = p /\ Created[k] = RecordOf(p)

\* C13: a notification that cannot be delivered undoes and prevents
\* nothing.  The step in which send_email_alert fails leaves the alerts
\* table as it is and the loops go on with the next row; the AlertRecord of
\* the pair stays in the table, and a call that returns has recorded every
\* matching pair, those after the failed delivery included.
C13_DeliveryFailureIsolated ==
    /\ [][(engine.pc = "stored" /\ engine' /= engine
              /\ engine'.undelivered = <<engine.r, engine.i>>) =>
             /\ alerts' = alerts
             /\ engine'.pc = "eval"
             /\ engine'.r = engine.r /\ engine'.i = engine.i + 1
             /\ engine'.snapshot = engine.snapshot]_vars
    /\ []((engine.pc /= "idle" /\ engine.undelivered /= <<>>) =>
             /\ Recorded(engine.undelivered)
             /\ engine.pc = "returned" => \A p \in Pairs : Matches(p) => Recorded(p))

\* C13 witness: a call that returned after the delivery for its first
\* recorded pair failed, with a later pair recorded too.
C13_Witness ==
    /\ engine.pc = "returned"
    /\ Len(engine.made) >= 2
    /\ engine.undelivered = engine.made[1]
    /\ Recorded(engine.made[2])

\* C14 as claimed: an error at one matching pair, a failure of store_alert
\* included, touches that pair only: when the call is over, every other
\* matching pair has its AlertRecord.
C14_ErrorsIsolated ==
    engine.pc \in {"returned", "raised"} =>
        \A p \in Pairs : (Matches(p) /\ p /= <<engine.r, engine.i>>) => Recorded(p)

\* C14 amended: only a delivery failure is isolated.  A failure of
\* store_alert ends the call: the exception leaves evaluate_alerts at the
\* pair it stands at and the call is not resumed; the matching pairs before
\* that pair have their AlertRecord and, for a warning or critical rule,
\* their notification, and that pair and the matching pairs after it have
\* neither.
C14_StoreFailureEndsCall ==
    /\ [][/\ (AtMatch /\ engine' /= engine /\ alerts' = alerts) =>
                /\ engine'.pc = "raised"
                /\ engine'.r = engine.r /\ engine'.i = engine.i
          /\ (engine.pc = "raised" /\ engine' /= engine) =>
                engine'.pc = "eval" /\ engine'.made = <<>>]_vars
    /\ [](engine.pc = "raised" =>
             \A p \in Pairs :
                 LET notices == {k \in 1..Len(Sent) : Sent[k].pair = p}
                 IN  IF Matches(p) /\ Before(p, <<engine.r, engine.i>>)
                     THEN /\ Recorded(p)
                          /\ Cardinality(notices)
                                = IF Severe(AlertRules[p[1]]) THEN 1 ELSE 0
                     ELSE /\ \A k \in 1..Len(engine.made) : engine.made[k] /= p
                          /\ notices = {})

\* C14 witness: a call that store_alert ended at its second matching pair:
\* the first pair is recorded, a matching pair after it is not.
C14_Witness ==
    /\ engine.pc = "raised"
    /\ Len(engine.made) = 1 /\ Recorded(engine.made[1])
    /\ \E p \in Pairs : /\ Matches(p)
                        /\ Before(<<engine.r, engine.i>>, p)
                        /\ ~Recorded(p)

\* The samples that were in the store when the call read it.
SeenByCall == SubSeq(returned, 1, engine.seen)

\* The alert row is a row about sample m.
IsAbout(record, m) ==
    /\ record.endpoint = m.endpoint
    /\ record.metric_name = m.metric_name
    /\ record.value = m.value

\* C15: snapshot evaluation.  A call reads the store once, when it starts:
\* that read gives every stored sample of the lookback window, those
\* appended during the call before included; until the call is over its
\* snapshot stays what the read gave, every AlertRecord it creates is about
\* a sample that was stored before the read, and when it returns every
\* matching row of the snapshot is recorded.
C15_SnapshotEvaluation ==
    /\ [][/\ (engine'.pc = "eval" /\ engine.pc \notin {"eval", "stored"}) =>
                /\ engine'.seen = Len(metrics)
                /\ \A i \in 1..Len(returned) :
                      InWindow(returned[i], LookbackHours, now) =>
                          Count(RowOf(returned[i]), engine'.snapshot)
                              = Count(RowOf(returned[i]), metrics)
          /\ (engine.pc \in {"eval", "stored"} /\ engine'.pc /= "idle") =>
                /\ engine'.snapshot = engine.snapshot
                /\ engine'.seen = engine.seen]_vars
    /\ [](engine.pc /= "idle" =>
             /\ \A i \in 1..Len(engine.snapshot) :
                   \E j \in 1..engine.seen : engine.snapshot[i] = RowOf(returned[j])
             /\ \A k \in 1..Len(Created) :
                   \E j \in 1..engine.seen : IsAbout(Created[k], returned[j])
             /\ engine.pc = "returned" => \A p \in Pairs : Matches(p) => Recorded(p))

\* C15 witness: a call that returned without an AlertRecord although the
\* store holds a sample above the threshold of "High CPU Usage", appended
\* after the call had read the store.
C15_Witness ==
    /\ engine.pc = "returned"
    /\ engine.seen = 1 /\ Len(returned) = 2
    /\ returned[2].metric_name = CpuUsageVm1 /\ returned[2].value = 90000
    /\ InWindow(returned[2], LookbackHours, now)
    /\ Created = <<>>

\* The rules of a name, and the alert rows of the call for row i.
RulesNamed(name) == {r \in Rules : AlertRules[r].name = name}
CreatedFor(i) == {k \in 1..Len(engine.made) : engine.made[k][2] = i}

\* C25.  A rule is matched to a sample by substring containment of its
\* pattern in the sample's metric_name.  No alert row pairs a rule with a
\* name that does not contain the rule's pattern; a call that returned has
\* applied the cpu_usage rules to its rows named cpu_usage and
\* cpu_usage_vm1 (a row above 85 has the record of "High CPU Usage") and to
\* no row named memory_usage.
C25_SubstringMatch ==
    /\ \A k \in 1..Len(alerts) :
          /\ RulesNamed(alerts[k].rule_name) /= {}
          /\ \A r \in RulesNamed(alerts[k].rule_name) :
                IsSubstring(AlertRules[r].metric_pattern, alerts[k].metric_name)
          /\ alerts[k].metric_name = MemoryUsage =>
                \A r \in RulesNamed(alerts[k].rule_name) :
                    AlertRules[r].metric_pattern /= CpuUsage
    /\ engine.pc = "returned" =>
          \A i \in 1..Len(engine.snapshot) :
              (engine.snapshot[i].metric_name \in {CpuUsage, CpuUsageVm1}
                  /\ engine.snapshot[i].value > 85000) =>
                  \E k \in CreatedFor(i) :
                      /\ Created[k].rule_name = "High CPU Usage"
                      /\ Created[k].metric_name = engine.snapshot[i].metric_name

\* A call returned on a snapshot of a cpu_usage_vm1 row at 90 and a
\* memory_usage row: the first has the record of the cpu rule, the second
\* the record of the memory rule only.
C25_Witness ==
    /\ engine.pc = "returned"
    /\ \E i, j \in 1..Len(engine.snapshot) :
          /\ engine.snapshot[i].metric_name = CpuUsageVm1 /\ engine.snapshot[i].value = 90000
          /\ engine.snapshot[j].metric_name = MemoryUsage
          /\ \E k \in CreatedFor(i) : Created[k].rule_name = "High CPU Usage"
          /\ \A k \in CreatedFor(j) : Created[k].rule_name = "Memory At Limit"
          /\ CreatedFor(j) /= {}

\* C27.  Every notification is preceded by its record.  send_email_alert is
\* invoked only when the last row of table alerts is the record of the match
\* it is invoked for; so the matches notified in a call are among those it
\* has recorded, in the same order, and over all calls there are never more
\* notifications than warning and critical records.  A delivery that failed
\* leaves its record in the table.
C27_RecordBeforeNotice ==
    /\ [][Len(notified') > Len(notified) =>
             /\ Len(notified') = Len(notified) + 1
             /\ Len(alerts) > engine.base
             /\ alerts' = alerts
             /\ LET notice == notified'[Len(notified')]
                    rec == alerts[Len(alerts)]
                IN  /\ engine.made[Len(engine.made)] = notice.pair
                    /\ rec.rule_name = notice.rule_name
                    /\ rec.severity = notice.severity
                    /\ rec.metric_name = engine.snapshot[notice.pair[2]].metric_name
                    /\ rec.value = engine.snapshot[notice.pair[2]].value]_vars
    /\ [](/\ Len(notified) <= Len(SelectSeq(alerts, Severe))
          /\ engine.pc /= "idle" =>
                /\ \A k \in 1..Len(Sent) : \E j \in 1..Len(engine.made) :
                      /\ engine.made[j] = Sent[k].pair
                      /\ Created[j].rule_name = Sent[k].rule_name
                /\ engine.undelivered /= <<>> =>
                      \E j \in 1..Len(engine.made) : engine.made[j] = engine.undelivered)

\* A call has returned in which one delivery failed and a later one went
\* out: the table holds both records.
C27_Witness ==
    /\ engine.pc = "returned"
    /\ Len(Sent) >= 2 /\ Len(Created) >= 2
    /\ engine.undelivered /= <<>>
    /\ engine.undelivered /= Sent[Len(Sent)].pair

\* The sample is older than the lookback window of the call.
Stale(m) == m.timestamp < engine.at - 2 * LookbackHours

\* The pairs of an enabled rule and a sample, stored before the call and not
\* stale, whose name contains the rule's pattern and whose value satisfies
\* its condition.
FreshMatches ==
    {p \in Rules \X (1..engine.seen) :
        /\ AlertRules[p[1]].enabled
        /\ ~Stale(returned[p[2]])
        /\ IsSubstring(AlertRules[p[1]].metric_pattern, returned[p[2]].metric_name)
        /\ ConditionHolds(AlertRules[p[1]], returned[p[2]].value)}

\* C28.  Only samples inside the lookback window are evaluated.  Every row
\* of the snapshot, and so every row an alert row or a notification of the
\* call is about, has a timestamp not older than one hour before the call;
\* and a call that returned has made as many alert rows as there are
\* matches of samples that are not stale, so a stale sample has none, even
\* when its value satisfies an enabled rule.
C28_WindowOnly ==
    engine.pc /= "idle" =>
        /\ \A i \in 1..Len(engine.snapshot) :
              InstantOf(engine.snapshot[i].timestamp) >= engine.at - 2 * LookbackHours
        /\ \A k \in 1..Len(engine.made) : engine.made[k][2] \in 1..Len(engine.snapshot)
        /\ \A k \in 1..Len(Sent) : Sent[k].pair[2] \in 1..Len(engine.snapshot)
        /\ Len(Created) <= Cardinality(FreshMatches)
        /\ engine.pc = "returned" => Len(Created) = Cardinality(FreshMatches)

\* A call has returned with the records and the notifications of a fresh
\* cpu_usage sample only, while the store holds a cpu_usage_vm1 sample of 90
\* from more than an hour before the call.
C28_Witness ==
    /\ engine.pc = "returned"
    /\ \E j \in 1..engine.seen :
          /\ Stale(returned[j])
          /\ returned[j].metric_name = CpuUsageVm1 /\ returned[j].value = 90000
    /\ Len(Created) = 2 /\ Len(Sent) = 2
    /\ \A k \in 1..2 : Created[k].metric_name = CpuUsage

\* The names of the rules that are switched off.
DisabledNames == {AlertRules[r].name : r \in {d \in Rules : ~AlertRules[d].enabled}}

\* The rows of the snapshot that rule r would match were it enabled.
WouldMatch(r) ==
    {i \in 1..Len(engine.snapshot) :
        /\ IsSubstring(AlertRules[r].metric_pattern, engine.snapshot[i].metric_name)
        /\ ConditionHolds(AlertRules[r], engine.snapshot[i].value)}

\* C29.  A disabled rule is inert: whatever the store holds and however
\* many cycles have run, no alert row and no notification carries the name
\* of a rule with enabled = false, and no call has stored an alert for a
\* pair of such a rule.
C29_DisabledInert ==
    /\ \A k \in 1..Len(alerts) : alerts[k].rule_name \notin DisabledNames
    /\ \A k \in 1..Len(notified) : notified[k].rule_name \notin DisabledNames
    /\ engine.pc /= "idle" =>
          \A k \in 1..Len(engine.made) : AlertRules[engine.made[k][1]].enabled

\* The second cycle has returned on a snapshot with a sample that the
\* disabled rule's pattern and condition fit; the enabled rule on the same
\* sample has its record, in both cycles.
C29_Witness ==
    /\ cycles = 2 /\ engine.pc = "returned"
    /\ \E r \in Rules : ~AlertRules[r].enabled /\ WouldMatch(r) /= {}
    /\ Len(Created) >= 1
    /\ Len(alerts) > Len(Created)
    /\ \A k \in 1..Len(alerts) : alerts[k].rule_name = "Memory At Limit"

\* C21.  AlertRecords are denormalized and stable.  The row a step adds to
\* table alerts carries the name, threshold and severity the rule object has
\* at that step and the endpoint, metric_name and value of the sample under
\* evaluation, a sample of table metrics; and no step (an evaluation, a
\* store_metric, an edit of a rule object) changes a row that is in the table.
C21_RecordsStable ==
    [][/\ Len(alerts') >= Len(alerts)
       /\ \A k \in 1..Len(alerts) : alerts'[k] = alerts[k]
       /\ Len(alerts') > Len(alerts) =>
             /\ Len(alerts') = Len(alerts) + 1
             /\ LET rec == alerts'[Len(alerts')]
                    rule == alert_rules[engine.r]
                    sample == engine.snapshot[engine.i]
                IN  /\ rec.rule_name = rule.name
                    /\ rec.threshold = rule.threshold
                    /\ rec.severity = rule.severity
                    /\ rec.endpoint = sample.endpoint
                    /\ rec.metric_name = sample.metric_name
                    /\ rec.value = sample.value
                    /\ \E j \in 1..Len(metrics) :
                          /\ metrics[j].endpoint = rec.endpoint
                          /\ metrics[j].metric_name = rec.metric_name
                          /\ metrics[j].value = rec.value]_vars

\* A record whose rule was edited after it was stored, to another threshold,
\* and a later evaluation has stored a record of the edited rule beside it.
C21_Witness ==
    /\ cycles = 2 /\ engine.pc = "returned"
    /\ \E k, n \in 1..Len(alerts), r \in Edited :
          /\ k < n
          /\ alerts[k].rule_name = alert_rules[r].name
          /\ alerts[k].threshold = AlertRules[r].threshold
          /\ alerts[k].threshold /= alert_rules[r].threshold
          /\ alerts[n].rule_name = alert_rules[r].name
          /\ alerts[n].threshold = alert_rules[r].threshold

\* ------------------------------------------------------- condition claims
\* C23.  greater_than and less_than are strict: check_alert_condition gives
\* true for greater_than exactly when the value is above the threshold and
\* for less_than exactly when it is below; 80.0 against 80 matches neither,
\* 80.1 matches greater_than.
C23_StrictComparison ==
    checked /= <<>> =>
        /\ checked.rule.condition = "greater_than" =>
              (checked.result <=> checked.value > checked.rule.threshold)
        /\ checked.rule.condition = "less_than" =>
              (checked.result <=> checked.value < checked.rule.threshold)
        /\ (checked.rule.condition \in {"greater_than", "less_than"}
              /\ checked.rule.threshold = 80000 /\ checked.value = 80000) => ~checked.result
        /\ (checked.rule.condition = "greater_than"
              /\ checked.rule.threshold = 80000 /\ checked.value = 80100) => checked.result

\* greater_than was asked about a value equal to the threshold.
C23_Witness ==
    /\ checked /= <<>>
    /\ checked.rule.condition = "greater_than"
    /\ checked.rule.threshold = 80000 /\ checked.value = 80000
    /\ ~checked.result

\* The distance of the value from the threshold, in thousandths.
Distance ==
    IF checked.value >= checked.rule.threshold THEN checked.value - checked.rule.threshold
    ELSE checked.rule.threshold - checked.value

\* C24 as claimed: equals is true exactly when the value is less than 0.01
\* from the threshold; at a distance of exactly 0.01 it is false.
C24_StrictTolerance ==
    (checked /= <<>> /\ checked.rule.condition = "equals") =>
        (checked.result <=> Distance < 10)

\* C24 amended: equals is true when the value is less than 0.01 from the
\* threshold (threshold + 0.005 matches) and false when it is more than 0.01
\* from it (threshold + 0.02 does not).  At a distance of exactly 0.01 in
\* decimals the doubles decide: 70.01 and 69.99 against 70 do not match,
\* 4.01 and 3.99 against 4 do.
C24_ToleranceOnDoubles ==
    (checked /= <<>> /\ checked.rule.condition = "equals") =>
        /\ Distance < 10 => checked.result
        /\ Distance > 10 => ~checked.result
        /\ (Distance = 10 /\ checked.rule.threshold = 70000) => ~checked.result
        /\ (Distance = 10 /\ checked.rule.threshold = 4000) => checked.result

\* equals was asked about 4.01 against 4.0 and said yes.
C24_Witness ==
    /\ checked /= <<>>
    /\ checked.rule.condition = "equals"
    /\ checked.rule.threshold = 4000 /\ checked.value = 4010
    /\ checked.result

\* --------------------------------------------------------- pipeline claims
\* The samples in the table.
StoredSamples(rows) == {rows[i] : i \in 1..Len(rows)}

\* C20.  The metric log is append-only: no step of the collector, the alert
\* engine or the store takes a stored sample away or changes it; every row
\* stays what it was and where it was, and new rows come after it.
C20_AppendOnly ==
    [][/\ StoredSamples(metrics) \subseteq StoredSamples(metrics')
       /\ Len(metrics') >= Len(metrics)
       /\ \A i \in 1..Len(metrics) : metrics'[i] = metrics[i]]_vars

\* Rows of two ticks are in the table, the second tick's after the first's,
\* and the alert engine has read the table and stored an alert.
C20_Witness ==
    /\ \E i, j \in 1..Len(metrics) : i < j /\ origin[i][2] = 1 /\ origin[j][2] = 2
    /\ cycles >= 1
    /\ Len(alerts) >= 1

\* C30.  Every AlertRecord is created unacknowledged, and no step of the
\* collector, the alert engine or the store changes the acknowledged field
\* of a row of table alerts: rows are added at the end with acknowledged
\* false, and the field of every row already there stays as it is.
C30_AcknowledgedUntouched ==
    /\ [][/\ Len(alerts') >= Len(alerts)
          /\ \A k \in 1..Len(alerts) : alerts'[k].acknowledged = alerts[k].acknowledged
          /\ \A k \in (Len(alerts) + 1)..Len(alerts') : alerts'[k].acknowledged = FALSE]_vars
    /\ [](\A k \in 1..Len(alerts) : alerts[k].acknowledged = FALSE)

\* Two cycles beside two ticks have left info and warning records, those of
\* the first cycle still in the table after the second tick's stores.
C30_Witness ==
    /\ cycles = 2 /\ engine.pc = "returned" /\ engine.base >= 1
    /\ loop[1].tick = 2 /\ \E i \in 1..Len(origin) : origin[i][2] = 2
    /\ \E k \in 1..engine.base : alerts[k].severity = "info"
    /\ \E k \in 1..Len(alerts) : alerts[k].severity = "warning"

\* A step of the collector's loop moves the loop or one of its fetches; a
\* step of an evaluation cycle moves evaluate_alerts.
CollectorMoves == loop' /= loop \/ task' /= task
EngineMoves == engine' /= engine

\* C22.  The two loops interact only through the store.  A step of a
\* collector tick leaves table alerts, the rules, the notification log and
\* the evaluation in progress as they are; a step of an evaluation cycle
\* leaves table metrics, the endpoint list, the running flag and the
\* collector's loop and fetches as they are.  Table metrics changes in
\* collector steps only, table alerts and the log in engine steps only.
C22_LoopsShareOnlyStore ==
    [][/\ CollectorMoves =>
             /\ alerts' = alerts /\ alert_rules' = alert_rules /\ notified' = notified
             /\ engine' = engine /\ cycles' = cycles
       /\ EngineMoves =>
             /\ metrics' = metrics /\ endpoints' = endpoints /\ running' = running
             /\ loop' = loop /\ task' = task /\ session' = session
       /\ metrics' /= metrics => CollectorMoves
       /\ (alerts' /= alerts \/ notified' /= notified) => EngineMoves]_vars

\* Both loops are in the middle of their work, the second tick beside the
\* second cycle, with rows, alerts and a notification behind them.
C22_Witness ==
    /\ loop[1].pc = "polling" /\ loop[1].tick = 2
    /\ engine.pc = "eval" /\ cycles = 2
    /\ Len(metrics) >= 1 /\ Len(alerts) >= 1 /\ Len(notified) >= 1

StoredMatch(k, r) ==
    /\ k <= Len(metrics)
    /\ AlertRules[r].enabled
    /\ IsSubstring(AlertRules[r].metric_pattern, metrics[k].metric_name)
    /\ ConditionHolds(AlertRules[r], metrics[k].value)

\* A call that began after row k was stored has written the AlertRecord of
\* rule r and that row.
Alerted(k, r) ==
    /\ engine.pc /= "idle"
    /\ k <= engine.seen
    /\ \E j \in 1..Len(engine.made) :
          /\ engine.made[j][1] = r
          /\ engine.snapshot[engine.made[j][2]] = metrics[k]
          /\ j <= Len(Created)
          /\ Created[j] = RecordOf(engine.made[j])

\* C34: eventual alerting.  Once a sample that an enabled rule matches is
\* in the store, a call of the evaluation loop that begins afterwards writes
\* the AlertRecord of the pair, unless a store operation failed in the
\* loop; the loop has a call to come as long as the bound on calls allows.
C34_EventualAlerting ==
    \A k \in 1..MaxStored, r \in 1..Len(AlertRules) :
        (StoredMatch(k, r) /\ cycles < MaxCycles) ~> (Alerted(k, r) \/ engine.pc = "raised")

\* C34 witness: the second call of the loop wrote the warning record of a
\* cpu_usage_vm1 sample of 90 that had no record when the call began.
C34_Witness ==
    /\ cycles = 2 /\ engine.base = 0
    /\ StoredMatch(1, 1) /\ Alerted(1, 1)
    /\ metrics[1].metric_name = CpuUsageVm1 /\ metrics[1].value = 90000

\* ------------------------------------------------------------ client claims
\* The resources of the first k GETs of the call, page after page.
RECURSIVE Received(_)
Received(k) ==
    IF k = 0 THEN <<>>
    ELSE Received(k - 1) \o ResourcePage(api.gets[k].page, api.gets[k].n)

\* A GET that was answered with a full page.
FullPage(g) == g.o = "200" /\ g.n = PageSize

\* C35: get_resources pagination.  The GETs of a call ask for pages 0, 1,
\* 2, ... in that order, with a token; each but the last was answered with a
\* full page, and while the call runs so was the last.  A call that has
\* returned ended on a failed request, and then returned the empty list, or
\* on a page that was empty or short, and then returned the resources of
\* all its pages in page order.
C35_Pagination ==
    (api.op = "get_resources" /\ api.pc \in {"get", "idle"}) =>
        LET gets == api.gets
            last == gets[Len(gets)]
        IN  /\ \A i \in 1..Len(gets) : gets[i].page = i - 1
            /\ \A i \in 1..(Len(gets) - 1) : FullPage(gets[i])
            /\ api.pc = "get" =>
                  /\ api.auth_token /= 0
                  /\ \A i \in 1..Len(gets) : FullPage(gets[i])
            /\ api.pc = "idle" =>
                  IF gets = <<>> THEN api.result = <<>>
                  ELSE /\ ~FullPage(last)
                       /\ last.o = "200" => api.result = Received(Len(gets))
                       /\ last.o /= "200" => api.result = <<>>

\* C35 witness: a call that received a full page and then a failed request
\* returned nothing.
C35_Witness ==
    /\ api.op = "get_resources" /\ api.pc = "idle" /\ Len(api.gets) = 2
    /\ api.gets[2].o = "error" /\ api.result = <<>>

\* C37: no domain request without a token.  A call of get_resources,
\* get_metrics, create_alert_definition or get_active_alerts that began with
\* no token calls authenticate once before anything else; it issues domain
\* requests only when that gave a token, and only while it holds one; and if
\* authenticate failed the call has returned its empty result, has issued no
\* domain request and has left auth_token unset, so that the next call
\* begins with authenticate again.
C37_NoRequestWithoutToken ==
    /\ [](api.op \in Operations =>
            /\ api.pc \in {"get", "request"} => api.auth_token /= 0
            /\ api.held = 0 =>
                  /\ api.pc = "authenticate" => api.posts = <<>> /\ api.sent = 0
                  /\ api.pc /= "authenticate" => Len(api.posts) = 1
                  /\ api.sent > 0 => api.posts = <<"token">>
                  /\ (api.posts /= <<>> /\ api.posts /= <<"token">>) =>
                        /\ api.pc = "idle"
                        /\ api.sent = 0
                        /\ api.auth_token = 0
                        /\ IF api.op = "create_alert_definition" THEN api.result = FALSE
                           ELSE api.result = <<>>)
    /\ [][(api.pc = "idle" /\ api.auth_token = 0 /\ api'.pc /= "idle" /\ api'.op \in Operations)
             => api'.pc = "authenticate"]_vars

\* C37 witness: create_alert_definition returned False after a failed
\* authentication, in a call that followed another failed one.
C37_Witness ==
    /\ api.op = "create_alert_definition" /\ api.pc = "idle" /\ api.calls >= 2
    /\ api.held = 0 /\ api.posts = <<"error">> /\ api.result = FALSE /\ api.sent = 0
    /\ server.issued = 0

\* The futures of the call, the distinct ids it was asked for, and the
\* futures that collected resource id.
Futures == 1..Len(pool.ids)

Requested == {pool.ids[f] : f \in Futures}

FuturesOf(id) == {f \in Futures : pool.ids[f] = id}

\* The collection of future f failed: get_metrics returned [] after a failed
\* authentication or request, or raised.
CollectionFailed(f) == pool.fut[f].out \in {"empty", "raised"}

\* What the collection of future f contributes: its data points, or [].
Collected(f) ==
    IF pool.fut[f].out = "data" THEN <<[resource_id |-> pool.ids[f], request |-> f]>> ELSE <<>>

\* The future of resource id that as_completed gave last.
LastCompleted(id) ==
    LET at(f) == CHOOSE k \in 1..Len(pool.order) : pool.order[k] = f
    IN  CHOOSE f \in FuturesOf(id) : \A g \in FuturesOf(id) : at(g) <= at(f)

C18_LazyTokenReacquisition ==
    api.pc = "get" => (api.auth_token /= 0 /\ api.auth_token \notin api.rejected)

====
